---- MODULE Spec2Model ----
(***************************************************************************)
(* Pixi's decision and drive-state engine: StateManager                    *)
(* (src/pixi/core/state_manager.py) and LocalBrain.decide                  *)
(* (src/pixi/core/local_brain.py); the action catalogue                    *)
(* (src/pixi/core/actions.py), the voice delegate                          *)
(* (src/pixi/core/reasoning_engine.py) and the life loop                   *)
(* (src/pixi/runners/run_realtime.py) with the hotword worker's queue;     *)
(* the hotword detector (src/pixi/perception/audio/hotword.py) and the     *)
(* speech recorder (src/pixi/perception/audio/speech.py).                  *)
(*                                                                         *)
(* Specifications.  Spec: handler calls on a StateManager.  SpecHistory:   *)
(* a long run of update_after_action.  SpecRun: runs of the four hooks.    *)
(* SpecCycles: decide cycles without end.  SpecRegistry: an                *)
(* ActionRegistry.  SpecLoop: the life loop.  SpecCapture: one             *)
(* SpeechRecorder.capture call.  SpecHotword: the hotword detector's       *)
(* worker thread and its caller.                                           *)
(*                                                                         *)
(* Numbers.  The drives are Python floats; here they are fixed-point       *)
(* integers in units of 1e-5 (One = 1.0), and time is counted in tenths of *)
(* a second.  With these units every constant of tick, of the event hooks, *)
(* of the feedback table and of the scoring formulas is an integer, and    *)
(* the only inexact operation is the excitement decay of tick, which is    *)
(* truncated toward zero.  round(x, 2) of get_state is modelled by what it *)
(* does: rounding to the nearest multiple of 0.01, halves to even.         *)
(*                                                                         *)
(* Clock.  time.time() is the environment's: every handler is entered      *)
(* after an elapsed time d chosen by the environment (d < 0 is clock skew) *)
(* and all clock reads inside one handler return the same reading.         *)
(***************************************************************************)
EXTENDS Integers, Sequences, FiniteSets, TLC

VARIABLES
    state,                \* StateManager._state (InternalState)
    last_interaction_ts,  \* StateManager._last_interaction_ts
    last_tick_ts,         \* StateManager._last_tick_ts
    recent_actions,       \* StateManager._recent_actions
    now,                  \* the reading of time.time()
    call,                 \* the last handler call: inputs, intermediate values, result
    steps,                \* number of handler calls made
    registry,             \* ActionRegistry._registry
    event_queue,          \* HotwordDetector._event_queue
    loop,                 \* run_realtime.main: position and locals of the cycle loop
    hotword,              \* HotwordDetector: its fields, its worker thread, its caller
    capture               \* SpeechRecorder.capture: position and locals of one call

vars ==
    <<state, last_interaction_ts, last_tick_ts, recent_actions, now, call, steps,
      registry, event_queue, loop, hotword, capture>>

manager_vars == <<state, last_interaction_ts, last_tick_ts, recent_actions>>

audio_vars == <<hotword, capture>>

runtime_vars == <<registry, event_queue, loop, hotword, capture>>

-----------------------------------------------------------------------------
(* Bounds and input sets.  A run is at most MaxSetup calls drawn from a    *)
(* small setup alphabet, which bring the manager into a variety of states, *)
(* followed by one call drawn from the full input sets.                    *)

MaxSetup == 2

\* elapsed time before a call, in tenths of a second:
\* clock skew, none, one cycle, 20 s (past boredom_timeout), 234 s
Deltas == {-10, 0, 1, 200, 2340}

\* elapsed time before a call to an event hook
HookDeltas == {0, 200}

Persons == {"NONE", "alice"}

\* face area and detection confidence, in units of 1e-5
Areas == {10000, 25000, 30000}

Confidences == {-50000, 80000, 150000}

Gestures == {"NONE", "Open_Palm", "Stop", "Thumb_Up", "Victory"}

\* the setup alphabet
SetupTickDeltas == {200, 2340}

SetupActions ==
    {"EMERGENCY_SHUTDOWN", "STRETCH", "GO_TO_SLEEP", "GREET_HAPPILY", "BACK_AWAY_SCARED"}

-----------------------------------------------------------------------------
(* Program constants *)

One == 100000

boredom_timeout == 150

energy_decay == 30

curiosity_rise == 40

max_recent_actions == 8

ActionName ==
    { "EMERGENCY_SHUTDOWN", "AVOID_OBSTACLE", "BACK_AWAY_SCARED", "LISTEN_TO_USER",
      "IGNORE", "ENJOY_TOUCH", "GREET_HAPPILY", "FOLLOW_PERSON", "COME_CLOSER",
      "SEARCH_FOR_HUMAN", "DO_A_HAPPY_DANCE", "WIGGLE_EXCITEDLY",
      "TILT_HEAD_CURIOUSLY", "STRETCH", "LOOK_AROUND", "GO_TO_SLEEP" }

Mood ==
    { "curious", "happy", "playful", "alert", "sleepy", "scared", "excited",
      "lonely", "neutral" }

InternalState ==
    [ mood |-> "curious", energy |-> 85000, curiosity |-> 65000,
      confidence |-> 55000, recognized_person |-> "NONE", last_action |-> "NONE",
      attention_hunger |-> 35000, excitement |-> 45000, caution |-> 30000 ]

-----------------------------------------------------------------------------
(* Arithmetic helpers *)

Max(a, b) == IF a >= b THEN a ELSE b

Min(a, b) == IF a <= b THEN a ELSE b

\* n / m truncated toward zero (m > 0)
TruncDiv(n, m) == IF n >= 0 THEN n \div m ELSE -((-n) \div m)

\* n / m rounded to the nearest integer, halves to even (m > 0)
RoundDiv(n, m) ==
    LET q == n \div m
        r == n % m
    IN  IF 2 * r > m THEN q + 1
        ELSE IF 2 * r < m THEN q
        ELSE IF q % 2 = 0 THEN q ELSE q + 1

\* as round2, rounding to one decimal
round1(x) == RoundDiv(x, 10000) * 10000

\* round(x, 2)
round2(x) == RoundDiv(x, 1000) * 1000

clamp(value, minimum, maximum) == Max(minimum, Min(maximum, value))

-----------------------------------------------------------------------------
(* StateManager.  A manager m is the record of its four fields; t is the   *)
(* clock reading during the call.                                          *)

time_since_last_interaction(m, t) == t - m.last_interaction_ts

\* as tick_delta, with a floor of one tenth of a second instead of zero
tick_delta_floor_tenth(m, t) == Max(1, t - m.last_tick_ts)

\* as tick_delta, with the magnitude of the elapsed time instead of the floor
tick_delta_abs(m, t) ==
    IF t >= m.last_tick_ts THEN t - m.last_tick_ts ELSE m.last_tick_ts - t

\* delta = max(0.0, now - self._last_tick_ts)
tick_delta(m, t) == Max(0, t - m.last_tick_ts)

\* "Curiosity rises when bored"
curiosity_delta(delta, boredom_time) ==
    IF boredom_time > boredom_timeout
    THEN (curiosity_rise * delta * 18) \div 10
    ELSE curiosity_rise * delta

\* as attention_gain, without the boredom multiplier
attention_gain_no_boredom(delta, boredom_time) == 150 * delta

\* "Attention hunger grows if ignored"
attention_gain(delta, boredom_time) ==
    IF boredom_time > boredom_timeout THEN 150 * delta * 2 ELSE 150 * delta

tick(m, t) ==
    LET delta == tick_delta(m, t)
        s == m.state
        boredom_time == time_since_last_interaction(m, t)
        excite_delta == TruncDiv((20000 - s.excitement) * delta, 100)
        caution_drop == 250 * delta
    IN  [ m EXCEPT
            !.last_tick_ts = t,
            !.state =
                [ s EXCEPT
                    !.energy = clamp(s.energy - energy_decay * delta, 0, One),
                    !.curiosity =
                        clamp(s.curiosity + curiosity_delta(delta, boredom_time), 10000, One),
                    !.attention_hunger =
                        clamp(s.attention_hunger + attention_gain(delta, boredom_time), 0, One),
                    !.excitement = clamp(s.excitement + excite_delta, 0, One),
                    !.caution = clamp(s.caution - caution_drop, 0, One) ] ]

\* as register_interaction, with tick's lower bound 0.1 for curiosity
register_interaction_floor_tenth(m, t, person) ==
    LET s == m.state
    IN  [ m EXCEPT
            !.last_interaction_ts = t,
            !.state =
                [ s EXCEPT
                    !.curiosity = clamp(s.curiosity - 10000, 10000, One),
                    !.confidence = clamp(s.confidence + 5000, 0, One),
                    !.attention_hunger = clamp(s.attention_hunger - 25000, 0, One),
                    !.excitement = clamp(s.excitement + 4000, 10000, One),
                    !.caution = clamp(s.caution - 5000, 10000, One),
                    !.recognized_person =
                        IF person # "NONE" THEN person ELSE s.recognized_person ] ]

register_interaction(m, t, person) ==
    LET s == m.state
    IN  [ m EXCEPT
            !.last_interaction_ts = t,
            !.state =
                [ s EXCEPT
                    !.curiosity = clamp(s.curiosity - 10000, 20000, One),
                    !.confidence = clamp(s.confidence + 5000, 0, One),
                    !.attention_hunger = clamp(s.attention_hunger - 25000, 0, One),
                    !.excitement = clamp(s.excitement + 4000, 10000, One),
                    !.caution = clamp(s.caution - 5000, 10000, One),
                    !.recognized_person =
                        IF person # "NONE" THEN person ELSE s.recognized_person ] ]

update_face_target(m, t, face_id, area, confidence) ==
    LET s == m.state
        \* 0.02 * clamp(confidence): exact, the inputs are multiples of 0.0005
        confidence_delta == (2 * clamp(confidence, 0, One)) \div 100
    IN  [ m EXCEPT
            !.last_interaction_ts = t,
            !.state =
                [ s EXCEPT
                    !.recognized_person = face_id,
                    !.confidence = clamp(s.confidence + confidence_delta, 0, One),
                    !.caution =
                        clamp(s.caution - (confidence_delta * 6) \div 10, 10000, One),
                    !.attention_hunger =
                        IF area > 20000
                        THEN clamp(s.attention_hunger - 1000, 0, One)
                        ELSE s.attention_hunger ] ]

\* as update_mood, with the assignment forgotten
update_mood_never(s, new_mood) == s

update_mood(s, new_mood) ==
    IF s.mood # new_mood THEN [s EXCEPT !.mood = new_mood] ELSE s

\* as deque_append, with a full history refusing the new entry
deque_append_keep_oldest(q, x) ==
    IF Len(q) < max_recent_actions THEN Append(q, x) ELSE q

\* deque(maxlen=max_recent_actions).append
deque_append(q, x) ==
    IF Len(q) < max_recent_actions THEN Append(q, x) ELSE Append(Tail(q), x)

\* as happy_dance_excitement, with the dance discharging excitement
happy_dance_excitement_discharged(s) == s.excitement - 20000

\* DO_A_HAPPY_DANCE: self._state.excitement += 0.2
happy_dance_excitement(s) == s.excitement + 20000

\* the if/elif chain of update_after_action: the feedback table
action_effects(s, action) ==
    CASE action = "EMERGENCY_SHUTDOWN" ->
            update_mood([s EXCEPT !.energy = 0], "sleepy")
      [] action = "ENJOY_TOUCH" ->
            update_mood([s EXCEPT !.attention_hunger = 0, !.caution = 0,
                                  !.excitement = clamp(s.excitement - 20000, 0, One)],
                        "happy")
      [] action = "GREET_HAPPILY" ->
            update_mood([s EXCEPT !.confidence = s.confidence + 10000,
                                  !.excitement = s.excitement + 15000], "happy")
      [] action = "LISTEN_TO_USER" ->
            update_mood([s EXCEPT !.excitement = clamp(s.excitement - 10000, 0, One)],
                        "alert")
      [] action = "FOLLOW_PERSON" ->
            update_mood([s EXCEPT !.energy = s.energy - 4000,
                                  !.attention_hunger = s.attention_hunger - 10000],
                        "curious")
      [] action = "SEARCH_FOR_HUMAN" ->
            update_mood([s EXCEPT !.energy = s.energy - 5000,
                                  !.curiosity = s.curiosity + 5000], "lonely")
      [] action = "COME_CLOSER" ->
            update_mood([s EXCEPT !.attention_hunger = s.attention_hunger - 15000],
                        "curious")
      [] action = "DO_A_HAPPY_DANCE" ->
            update_mood([s EXCEPT !.energy = s.energy - 8000,
                                  !.excitement = happy_dance_excitement(s)],
                        "playful")
      [] action = "WIGGLE_EXCITEDLY" ->
            update_mood([s EXCEPT !.energy = s.energy - 5000,
                                  !.excitement = s.excitement + 15000], "excited")
      [] action = "GO_TO_SLEEP" ->
            update_mood([s EXCEPT !.energy = s.energy + 25000, !.excitement = 0],
                        "sleepy")
      [] action = "STRETCH" ->
            update_mood([s EXCEPT !.energy = s.energy + 5000,
                                  !.curiosity = s.curiosity + 5000], "neutral")
      [] action = "BACK_AWAY_SCARED" ->
            update_mood([s EXCEPT !.caution = s.caution + 30000,
                                  !.confidence = s.confidence - 20000], "scared")
      [] action = "AVOID_OBSTACLE" ->
            update_mood([s EXCEPT !.caution = s.caution + 10000], "alert")
      [] OTHER -> s

\* as clamp_after_update, with the clamp of energy forgotten
clamp_after_update_no_energy(s) ==
    [ s EXCEPT
        !.confidence = clamp(s.confidence, 0, One),
        !.attention_hunger = clamp(s.attention_hunger, 0, One),
        !.excitement = clamp(s.excitement, 0, One),
        !.caution = clamp(s.caution, 0, One) ]

\* "Clamp all values after update": curiosity is not among them
clamp_after_update(s) ==
    [ s EXCEPT
        !.energy = clamp(s.energy, 0, One),
        !.confidence = clamp(s.confidence, 0, One),
        !.attention_hunger = clamp(s.attention_hunger, 0, One),
        !.excitement = clamp(s.excitement, 0, One),
        !.caution = clamp(s.caution, 0, One) ]

\* as NonSocial, with LOOK_AROUND added to the set
NonSocial_with_look_around ==
    {"IGNORE", "BACK_AWAY_SCARED", "AVOID_OBSTACLE", "GO_TO_SLEEP", "LOOK_AROUND"}

\* as NonSocial, with GO_TO_SLEEP left out of the set
NonSocial_without_sleep == {"IGNORE", "BACK_AWAY_SCARED", "AVOID_OBSTACLE"}

\* the actions after which update_after_action does not register an interaction

NonSocial == {"IGNORE", "BACK_AWAY_SCARED", "AVOID_OBSTACLE", "GO_TO_SLEEP"}

update_after_action(m, t, action) ==
    LET s0 == [m.state EXCEPT !.last_action = action]
        s1 == clamp_after_update(action_effects(s0, action))
        m1 == [ m EXCEPT
                  !.recent_actions = deque_append(m.recent_actions, action),
                  !.state = s1 ]
    IN  IF action \notin NonSocial
        THEN register_interaction(m1, t, s1.recognized_person)
        ELSE m1

get_state(m, t) ==
    LET s == m.state
        time_since == time_since_last_interaction(m, t)
        boredom_score ==
            IF time_since <= 0 THEN 0
            ELSE IF time_since >= boredom_timeout * 3 THEN One
            ELSE RoundDiv(time_since * 100, boredom_timeout * 3) * 1000
    IN  [ mood |-> s.mood,
          energy |-> round2(s.energy),
          curiosity |-> round2(s.curiosity),
          confidence |-> round2(s.confidence),
          attention_hunger |-> round2(s.attention_hunger),
          excitement |-> round2(s.excitement),
          caution |-> round2(s.caution),
          boredom |-> boredom_score,
          time_since_last_interaction |-> time_since,
          recognized_person |->
              IF s.recognized_person = "NONE" THEN "unknown" ELSE s.recognized_person,
          last_action |-> s.last_action,
          recent_actions |-> m.recent_actions ]

-----------------------------------------------------------------------------
(* Action catalogue (src/pixi/core/actions.py).  A descriptor is the       *)
(* record of its name, its metadata (priority, and energy_cost in units of *)
(* 1e-5) and its handler ("NONE": no handler wired).                       *)

ActionDescriptor(name, energy_cost, priority) ==
    [name |-> name, energy_cost |-> energy_cost, priority |-> priority,
     handler |-> "NONE"]

\* ActionRegistry.register
register(reg, descriptor) ==
    [ n \in DOMAIN reg \cup {descriptor.name} |->
        IF n = descriptor.name THEN descriptor ELSE reg[n] ]

\* ActionRegistry.__init__
empty_registry == [n \in {} |-> ActionDescriptor(n, 0, 50)]

\* _register_default_actions: the catalogue of the sixteen actions
default_descriptors ==
    << ActionDescriptor("EMERGENCY_SHUTDOWN", 0, 100),
       ActionDescriptor("AVOID_OBSTACLE", 3000, 95),
       ActionDescriptor("BACK_AWAY_SCARED", 3000, 92),
       ActionDescriptor("LISTEN_TO_USER", 0, 95),
       ActionDescriptor("IGNORE", 0, 10),
       ActionDescriptor("ENJOY_TOUCH", 0, 90),
       ActionDescriptor("GREET_HAPPILY", 5000, 80),
       ActionDescriptor("FOLLOW_PERSON", 6000, 85),
       ActionDescriptor("COME_CLOSER", 5000, 78),
       ActionDescriptor("SEARCH_FOR_HUMAN", 4000, 60),
       ActionDescriptor("DO_A_HAPPY_DANCE", 8000, 70),
       ActionDescriptor("WIGGLE_EXCITEDLY", 7000, 75),
       ActionDescriptor("TILT_HEAD_CURIOUSLY", 1000, 40),
       ActionDescriptor("STRETCH", 2000, 20),
       ActionDescriptor("LOOK_AROUND", 2000, 35),
       ActionDescriptor("GO_TO_SLEEP", -20000, 60) >>

RECURSIVE register_all(_, _)
register_all(reg, descriptors) ==
    IF descriptors = <<>> THEN reg
    ELSE register_all(register(reg, Head(descriptors)), Tail(descriptors))

default_registry == register_all(empty_registry, default_descriptors)

\* as attach_handler, registering an unknown identifier with the handler
attach_handler_registering(reg, name, handler) ==
    [ n \in DOMAIN reg \cup {name} |->
        IF n = name
        THEN IF n \in DOMAIN reg THEN [reg[n] EXCEPT !.handler = handler]
             ELSE [ActionDescriptor(n, 0, 50) EXCEPT !.handler = handler]
        ELSE reg[n] ]

\* ActionRegistry.attach_handler; for an unknown name only a warning is printed
attach_handler(reg, name, handler) ==
    IF name \in DOMAIN reg
    THEN [reg EXCEPT ![name].handler = handler]
    ELSE reg

\* What an invocation of a handler does: the call is rejected with a TypeError
\* before the body runs (a handler that takes no arguments, called with them;
\* one that requires them, called without), or the body runs and returns,
\* raises TypeError itself, or raises another error.
Outcomes == {"rejected", "returns", "TypeError", "error"}

\* The outcomes in which the handler's body has run
body_ran(outcome) == IF outcome = "rejected" THEN 0 ELSE 1

\* ActionDescriptor.dispatch: first is the outcome of handler(face_data=...,
\* gesture=...), second that of the fallback handler(); the result tells how
\* often the handler was called (invoked), how often its body ran (ran) and
\* whether dispatch raised to its caller
dispatch(descriptor, first, second) ==
    IF descriptor.handler = "NONE"
    THEN [invoked |-> 0, ran |-> 0, raised |-> FALSE]
    ELSE IF first = "returns" THEN [invoked |-> 1, ran |-> 1, raised |-> FALSE]
    ELSE IF first \in {"rejected", "TypeError"}
         THEN [invoked |-> 2, ran |-> body_ran(first) + body_ran(second),
               raised |-> second # "returns"]
    ELSE [invoked |-> 1, ran |-> 1, raised |-> TRUE]

-----------------------------------------------------------------------------
(* LocalBrain.decide.  face is what face_detector.process_frame found      *)
(* (present = FALSE: no face_detected event), gesture what                 *)
(* gesture_detector.process_frame returned ("NONE": no gesture).           *)

NoFace == [present |-> FALSE, area |-> 0, confidence |-> 0]

Faces ==
    {NoFace} \cup {[present |-> TRUE, area |-> a, confidence |-> 80000] : a \in Areas}

\* A. FOLLOW_PERSON, with a face in view
follow_score(cs) == cs.attention_hunger * 2 + 50000

\* as search_score, with the weight 1.0 instead of 1.5
search_score_weak(cs, face) ==
    IF ~face.present /\ cs.attention_hunger > 70000 THEN cs.attention_hunger ELSE 0

\* B. SEARCH_FOR_HUMAN
search_score(cs, face) ==
    IF ~face.present /\ cs.attention_hunger > 70000
    THEN (cs.attention_hunger * 15) \div 10 ELSE 0

\* as dance_score, with the energy factor left out
dance_score_no_energy(cs) == (cs.excitement \div 1000) * 700

\* C. DO_A_HAPPY_DANCE: excitement * energy * 0.7 (the snapshot values are
\* multiples of 0.01, so the product is exact in units of 1e-5)
dance_score(cs) == (cs.excitement \div 1000) * (cs.energy \div 1000) * 7

\* as nap_score, with the weight 0.5 of the tiredness term left out
nap_score_unweighted(cs) == cs.boredom + (One - cs.energy)

\* D. nap_score
nap_score(cs) == cs.boredom + (One - cs.energy) \div 2

\* E. TILT_HEAD_CURIOUSLY
tilt_score(cs, face) ==
    IF face.present /\ cs.curiosity > 50000 THEN (cs.curiosity * 12) \div 10 ELSE 0

\* as closer_score, with the weight 2.0 instead of 3.0
closer_score_weak(cs, face) ==
    IF face.present /\ cs.attention_hunger > 85000 THEN cs.attention_hunger * 2 ELSE 0

\* F. COME_CLOSER
closer_score(cs, face) ==
    IF face.present /\ cs.attention_hunger > 85000 THEN cs.attention_hunger * 3 ELSE 0

\* G. STRETCH
stretch_score(cs) ==
    IF 40000 < cs.boredom /\ cs.boredom < 80000 THEN (cs.boredom * 8) \div 10 ELSE 0

\* as score_pool, with the LOOK_AROUND baseline entered only when no face is seen
score_pool_no_baseline(current_state, face) ==
    LET cs == current_state
    IN  <<[action |-> "FOLLOW_PERSON",
           score |-> IF face.present THEN follow_score(cs) ELSE 0],
          [action |-> "DO_A_HAPPY_DANCE", score |-> dance_score(cs)]>>
        \o (IF face.present THEN <<>> ELSE <<[action |-> "LOOK_AROUND", score |-> 20000]>>)

\* the candidate pool, in the order the entries are inserted into the dict
score_pool(current_state, face) ==
    LET cs == current_state
        social ==
            IF face.present
            THEN <<[action |-> "FOLLOW_PERSON", score |-> follow_score(cs)]>>
                 \o (IF cs.curiosity > 60000
                     THEN <<[action |-> "GREET_HAPPILY", score |-> 120000]>>
                     ELSE <<>>)
            ELSE <<[action |-> "FOLLOW_PERSON", score |-> 0],
                   [action |-> "GREET_HAPPILY", score |-> 0]>>
        nap ==
            IF nap_score(cs) > 80000
            THEN <<[action |-> "GO_TO_SLEEP", score |-> nap_score(cs)]>>
            ELSE <<>>
    IN  social
        \o <<[action |-> "SEARCH_FOR_HUMAN", score |-> search_score(cs, face)],
             [action |-> "DO_A_HAPPY_DANCE", score |-> dance_score(cs)],
             [action |-> "LOOK_AROUND", score |-> 20000]>>
        \o nap
        \o <<[action |-> "TILT_HEAD_CURIOUSLY", score |-> tilt_score(cs, face)],
             [action |-> "COME_CLOSER", score |-> closer_score(cs, face)],
             [action |-> "STRETCH", score |-> stretch_score(cs)]>>

\* as best_index, keeping the last of the entries with the maximal score
best_index_last(scores) ==
    CHOOSE i \in 1..Len(scores) :
        /\ \A j \in 1..Len(scores) : scores[j].score <= scores[i].score
        /\ \A j \in (i + 1)..Len(scores) : scores[j].score < scores[i].score

\* max(scores, key=scores.get): the first entry, in insertion order, whose
\* score no entry exceeds
best_index(scores) ==
    CHOOSE i \in 1..Len(scores) :
        /\ \A j \in 1..Len(scores) : scores[j].score <= scores[i].score
        /\ \A j \in 1..(i - 1) : scores[j].score < scores[i].score

\* as override, with the gesture tier checked before the listening tier
override_gesture_first(current_state, face, gesture, is_listening, is_touching) ==
    IF current_state.energy < 15000 THEN "GO_TO_SLEEP"
    ELSE IF gesture = "Open_Palm" \/ gesture = "Stop" THEN "AVOID_OBSTACLE"
    ELSE IF gesture = "Thumb_Up" THEN "DO_A_HAPPY_DANCE"
    ELSE IF is_listening THEN "IGNORE"
    ELSE IF is_touching THEN "WIGGLE_EXCITEDLY"
    ELSE IF face.present /\ face.area > 28000 THEN "BACK_AWAY_SCARED"
    ELSE "NONE"

\* as override, with the touch tier checked before the gesture tier
override_touch_first(current_state, face, gesture, is_listening, is_touching) ==
    IF current_state.energy < 15000 THEN "GO_TO_SLEEP"
    ELSE IF is_listening THEN "IGNORE"
    ELSE IF is_touching THEN "WIGGLE_EXCITEDLY"
    ELSE IF gesture = "Open_Palm" \/ gesture = "Stop" THEN "AVOID_OBSTACLE"
    ELSE IF gesture = "Thumb_Up" THEN "DO_A_HAPPY_DANCE"
    ELSE IF face.present /\ face.area > 28000 THEN "BACK_AWAY_SCARED"
    ELSE "NONE"

\* the override tiers, in the order of the code; "NONE" when none fires
override(current_state, face, gesture, is_listening, is_touching) ==
    IF current_state.energy < 15000 THEN "GO_TO_SLEEP"
    ELSE IF is_listening THEN "IGNORE"
    ELSE IF gesture = "Open_Palm" \/ gesture = "Stop" THEN "AVOID_OBSTACLE"
    ELSE IF gesture = "Thumb_Up" THEN "DO_A_HAPPY_DANCE"
    ELSE IF is_touching THEN "WIGGLE_EXCITEDLY"
    ELSE IF face.present /\ face.area > 28000 THEN "BACK_AWAY_SCARED"
    ELSE "NONE"

\* the result: the manager afterwards (m), the manager when the cascade was
\* evaluated (ticked), the snapshot, the pool, and the returned action
decide(m, t, face, gesture, is_listening, is_touching) ==
    LET seen ==
            IF face.present
            THEN update_face_target(m, t, "user", face.area, face.confidence)
            ELSE m
        ticked == tick(seen, t)
        current_state == get_state(ticked, t)
        forced == override(current_state, face, gesture, is_listening, is_touching)
        scores == score_pool(current_state, face)
        best_action == scores[best_index(scores)].action
    IN  IF forced # "NONE"
        THEN [ m |-> ticked, ticked |-> ticked, current_state |-> current_state,
               scores |-> <<>>, overridden |-> TRUE, action |-> forced ]
        ELSE [ m |-> update_after_action(ticked, t, best_action), ticked |-> ticked,
               current_state |-> current_state, scores |-> scores,
               overridden |-> FALSE, action |-> best_action ]

-----------------------------------------------------------------------------
(* ReasoningEngine (src/pixi/core/reasoning_engine.py).  A reply of the    *)
(* language model is: invoke raises (a network error, a timeout), or it    *)
(* returns a text that is JSON or not; action is the text's "action" entry *)
(* after strip().upper(), as the sequence of its words.                    *)

Reply(raises, json, action) == [raises |-> raises, json |-> json, action |-> action]

Replies ==
    { Reply(TRUE, FALSE, <<>>), Reply(FALSE, FALSE, <<>>),
      Reply(FALSE, TRUE, <<"GREET_HAPPILY">>), Reply(FALSE, TRUE, <<"LOOK_AROUND">>),
      Reply(FALSE, TRUE, <<"FLY">>), Reply(FALSE, TRUE, <<"HELLO", "THERE">>) }

\* the methods ActionRegistry defines (actions.py, lines 70-86)
ActionRegistryMethods == {"__init__", "register", "get", "all", "attach_handler"}

\* the synonym table of _normalise_action, in its order
synonyms ==
    << <<"HAPPY", "DO_A_HAPPY_DANCE">>, <<"DANCE", "DO_A_HAPPY_DANCE">>,
       <<"WIGGLE", "WIGGLE_EXCITEDLY">>, <<"GREET", "GREET_HAPPILY">>,
       <<"HELLO", "GREET_HAPPILY">>, <<"SCARED", "BACK_AWAY_SCARED">>,
       <<"STOP", "AVOID_OBSTACLE">> >>

\* ReasoningEngine._normalise_action
normalise_action(action_raw) ==
    IF Len(action_raw) = 1 /\ action_raw[1] \in ActionName THEN action_raw[1]
    ELSE LET hits == {i \in 1..Len(synonyms) :
                         \E j \in 1..Len(action_raw) : action_raw[j] = synonyms[i][1]}
         IN  IF hits = {} THEN "LOOK_AROUND"
             ELSE synonyms[CHOOSE i \in hits : \A k \in hits : i <= k][2]

\* ReasoningEngine._extract_action: a text that is not JSON gives payload {}
extract_action(reply) ==
    normalise_action(IF reply.json THEN reply.action ELSE <<>>)

\* ReasoningEngine.decide_action_from_text.  The state is updated first; the
\* prompt is then built, outside the try, with self._actions.to_prompt_list():
\* calling a method the registry does not define raises AttributeError.
decide_action_from_text(m, t, reply) ==
    LET updated == register_interaction(tick(m, t), t, "voice_user")
    IN  IF "to_prompt_list" \notin ActionRegistryMethods
        THEN [m |-> updated, raised |-> TRUE, action |-> "NONE"]
        ELSE IF reply.raises
        THEN [m |-> updated, raised |-> FALSE, action |-> "TILT_HEAD_CURIOUSLY"]
        ELSE [ m |-> updated, raised |-> FALSE,
               action |-> IF extract_action(reply) = "LOOK_AROUND"
                          THEN "TILT_HEAD_CURIOUSLY"
                          ELSE extract_action(reply) ]

-----------------------------------------------------------------------------
(* Start-up of run_realtime.main and the hotword worker's queue.           *)

\* attach_stub_handlers: a stub for every descriptor without a handler
attach_stub_handlers(reg) ==
    [ n \in DOMAIN reg |->
        IF reg[n].handler = "NONE" THEN [reg[n] EXCEPT !.handler = "stub"]
        ELSE reg[n] ]

\* queue.Queue(): maxsize 0, a queue without a capacity
maxsize == 0

\* Queue.put would block on a queue that is full
full(q) == maxsize > 0 /\ Len(q) >= maxsize

\* Queue.put
put(q, event) == Append(q, event)

\* hotword_detected, as _run publishes it for the first keyword
AudioEvent == [summary |-> "hotword_detected", index |-> 0]

-----------------------------------------------------------------------------
(* The state machine: one action per handler call *)

Self ==
    [ state |-> state, last_interaction_ts |-> last_interaction_ts,
      last_tick_ts |-> last_tick_ts, recent_actions |-> recent_actions ]

\* (a result is bound with \E over a singleton so that it is computed once)
Store(m) ==
    /\ state' = m.state
    /\ last_interaction_ts' = m.last_interaction_ts
    /\ last_tick_ts' = m.last_tick_ts
    /\ recent_actions' = m.recent_actions

\* run_realtime.main before the life loop is entered
not_started == [pc |-> "not_started"]

\* no HotwordDetector constructed, no SpeechRecorder.capture call under way
no_detector == [main |-> "absent"]

not_capturing == [pc |-> "idle"]

\* StateManager.__init__
Init ==
    /\ state = InternalState
    /\ now = 0
    /\ last_interaction_ts = 0
    /\ last_tick_ts = 0
    /\ recent_actions = <<>>
    /\ call = [op |-> "__init__"]
    /\ steps = 0
    /\ registry = default_registry
    /\ event_queue = <<>>
    /\ loop = not_started
    /\ hotword = no_detector
    /\ capture = not_capturing

\* entering a handler d tenths of a second after the previous call; a call of
\* the setup alphabet may be followed by further calls, any other call ends the run
Enter(d, setup) ==
    /\ steps <= MaxSetup
    /\ steps' = IF setup /\ steps < MaxSetup THEN steps + 1 ELSE MaxSetup + 1
    /\ now' = now + d
    /\ UNCHANGED runtime_vars

Tick(d) ==
    /\ Enter(d, d \in SetupTickDeltas)
    /\ \E m \in {tick(Self, now')} : Store(m)
    /\ call' = [op |-> "tick", pre |-> Self, delta |-> now' - last_tick_ts]

RegisterInteraction(d, person) ==
    /\ Enter(d, d = 0 /\ person = "alice")
    /\ \E m \in {register_interaction(Self, now', person)} : Store(m)
    /\ call' = [op |-> "register_interaction", pre |-> Self, person |-> person]

UpdateFaceTarget(d, area, confidence) ==
    /\ Enter(d, d = 0 /\ area = 25000 /\ confidence = 80000)
    /\ \E m \in {update_face_target(Self, now', "user", area, confidence)} : Store(m)
    /\ call' = [op |-> "update_face_target", pre |-> Self, area |-> area,
                confidence |-> confidence]

UpdateAfterAction(d, action) ==
    /\ Enter(d, d = 0 /\ action \in SetupActions)
    /\ \E m \in {update_after_action(Self, now', action)} : Store(m)
    /\ call' = [op |-> "update_after_action", pre |-> Self, action |-> action]

\* as GetState, with a snapshot that ticks the manager first
GetState_ticking(d) ==
    /\ Enter(d, FALSE)
    /\ \E m \in {tick(Self, now')} : Store(m)
    /\ call' = [op |-> "get_state", pre |-> Self,
                current_state |-> get_state(Self, now')]

GetState(d) ==
    /\ Enter(d, FALSE)
    /\ UNCHANGED <<state, last_interaction_ts, last_tick_ts, recent_actions>>
    /\ call' = [op |-> "get_state", pre |-> Self,
                current_state |-> get_state(Self, now')]

Decide(d, face, gesture, is_listening, is_touching) ==
    /\ Enter(d, d = 1 /\ ~face.present /\ gesture = "NONE"
                      /\ ~is_listening /\ ~is_touching)
    /\ \E r \in {decide(Self, now', face, gesture, is_listening, is_touching)} :
           /\ Store(r.m)
           /\ call' = [ op |-> "decide", pre |-> Self, face |-> face,
                        gesture |-> gesture, is_listening |-> is_listening,
                        is_touching |-> is_touching, ticked |-> r.ticked,
                        current_state |-> r.current_state, scores |-> r.scores,
                        overridden |-> r.overridden, action |-> r.action ]

Next ==
    \/ \E d \in Deltas : Tick(d)
    \/ \E d \in HookDeltas, person \in Persons : RegisterInteraction(d, person)
    \/ \E d \in HookDeltas, area \in Areas, confidence \in Confidences :
          UpdateFaceTarget(d, area, confidence)
    \/ \E d \in HookDeltas, action \in ActionName : UpdateAfterAction(d, action)
    \/ \E d \in Deltas : GetState(d)
    \/ \E d \in Deltas, face \in Faces, gesture \in Gestures,
          is_listening \in BOOLEAN, is_touching \in BOOLEAN :
          Decide(d, face, gesture, is_listening, is_touching)

Spec == Init /\ [][Next]_vars

-----------------------------------------------------------------------------
(* Action history.  A run of update_after_action calls long enough to fill *)
(* the history and overflow it; call.applied logs every action applied.    *)

MaxHistory == 10

HistoryActions == {"STRETCH", "GO_TO_SLEEP"}

HistoryInit ==
    /\ state = InternalState
    /\ now = 0
    /\ last_interaction_ts = 0
    /\ last_tick_ts = 0
    /\ recent_actions = <<>>
    /\ call = [op |-> "__init__", applied |-> <<>>]
    /\ steps = 0
    /\ registry = default_registry
    /\ event_queue = <<>>
    /\ loop = not_started
    /\ hotword = no_detector
    /\ capture = not_capturing

ApplyAction(action) ==
    /\ steps < MaxHistory
    /\ steps' = steps + 1
    /\ now' = now + 1
    /\ \E m \in {update_after_action(Self, now', action)} : Store(m)
    /\ call' = [op |-> "update_after_action", pre |-> Self, action |-> action,
                applied |-> Append(call.applied, action)]
    /\ UNCHANGED runtime_vars

HistoryNext == \E action \in HistoryActions : ApplyAction(action)

SpecHistory == HistoryInit /\ [][HistoryNext]_vars

-----------------------------------------------------------------------------
(* Drives over a run.  Runs of tick, register_interaction,                  *)
(* update_face_target and update_after_action calls in any order, long     *)
(* enough for repeated interactions to bring a drive to its bound.         *)

MaxCalls == 6

RunDeltas == {1, 200}

RunActions == {"LOOK_AROUND", "STRETCH"}

\* entering a hook d tenths of a second after the previous call
RunEnter(d) ==
    /\ steps < MaxCalls
    /\ steps' = steps + 1
    /\ now' = now + d
    /\ UNCHANGED runtime_vars

RunTick(d) ==
    /\ RunEnter(d)
    /\ \E m \in {tick(Self, now')} : Store(m)
    /\ call' = [op |-> "tick", pre |-> Self, delta |-> now' - last_tick_ts]

RunRegisterInteraction ==
    /\ RunEnter(0)
    /\ \E m \in {register_interaction(Self, now', "NONE")} : Store(m)
    /\ call' = [op |-> "register_interaction", pre |-> Self, person |-> "NONE"]

RunUpdateFaceTarget ==
    /\ RunEnter(0)
    /\ \E m \in {update_face_target(Self, now', "user", 25000, 80000)} : Store(m)
    /\ call' = [op |-> "update_face_target", pre |-> Self, area |-> 25000,
                confidence |-> 80000]

RunUpdateAfterAction(action) ==
    /\ RunEnter(0)
    /\ \E m \in {update_after_action(Self, now', action)} : Store(m)
    /\ call' = [op |-> "update_after_action", pre |-> Self, action |-> action]

RunNext ==
    \/ \E d \in RunDeltas : RunTick(d)
    \/ RunRegisterInteraction
    \/ RunUpdateFaceTarget
    \/ \E action \in RunActions : RunUpdateAfterAction(action)

SpecRun == Init /\ [][RunNext]_vars

-----------------------------------------------------------------------------
(* Decide cycles without end.  The life loop with nobody in front of the   *)
(* camera: a frame is awaited, then LocalBrain.decide runs with no face,   *)
(* no gesture and both flags false.  The manager uses clock readings only  *)
(* through their differences, so the readings are kept relative to the     *)
(* last decide, which makes a run that goes on for ever return to states   *)
(* it has been in.                                                         *)

\* the time one cycle takes, in tenths of a second: the whole number of
\* tenths nearest to the 0.033 s the loop sleeps up to
CyclePeriod == 1

\* the manager with its clock readings counted from t; idle time beyond
\* 3 * boredom_timeout is kept at that value: tick compares it with
\* boredom_timeout and get_state's boredom_score is 1 from there on
rebase(m, t) ==
    [ m EXCEPT !.last_tick_ts = m.last_tick_ts - t,
               !.last_interaction_ts =
                   Max(m.last_interaction_ts - t, -(3 * boredom_timeout)) ]

\* camera.read and the sleep that paces the loop
AwaitFrame ==
    /\ now = last_tick_ts
    /\ now' = now + CyclePeriod
    /\ UNCHANGED <<manager_vars, call, steps, runtime_vars>>

\* brain.decide(frame) on a frame without a face
DecideCycle ==
    /\ now > last_tick_ts
    /\ \E r \in {decide(Self, now, NoFace, "NONE", FALSE, FALSE)} :
           /\ Store(rebase(r.m, now))
           /\ call' = [ op |-> "decide", pre |-> Self, face |-> NoFace,
                        gesture |-> "NONE", is_listening |-> FALSE,
                        is_touching |-> FALSE, ticked |-> r.ticked,
                        current_state |-> r.current_state, scores |-> r.scores,
                        overridden |-> r.overridden, action |-> r.action ]
    /\ now' = 0
    /\ UNCHANGED <<steps, runtime_vars>>

CyclesNext == AwaitFrame \/ DecideCycle

\* decide returns whenever it is called: weak fairness of DecideCycle, written
\* through its enabling condition now > last_tick_ts
DecideReturns == []<>(now = last_tick_ts)

\* the loop goes on: a frame arrives, decide returns
SpecCycles ==
    Init /\ [][CyclesNext]_vars /\ WF_vars(AwaitFrame) /\ DecideReturns

-----------------------------------------------------------------------------
(* Action registry.  A registry that starts empty, on which descriptors    *)
(* are registered, handlers attached and actions dispatched.               *)

RegistryNames == {"IGNORE", "STRETCH", "LOOK_AROUND"}

Priorities == {20, 50}

Handlers == {"stub", "driver"}

RegistryInit ==
    /\ state = InternalState
    /\ now = 0
    /\ last_interaction_ts = 0
    /\ last_tick_ts = 0
    /\ recent_actions = <<>>
    /\ call = [op |-> "__init__"]
    /\ steps = 0
    /\ registry = empty_registry
    /\ event_queue = <<>>
    /\ loop = not_started
    /\ hotword = no_detector
    /\ capture = not_capturing

RegistryFrame ==
    UNCHANGED <<state, last_interaction_ts, last_tick_ts, recent_actions, now,
                steps, event_queue, loop, hotword, capture>>

Register(name, priority) ==
    /\ registry' = register(registry, ActionDescriptor(name, 0, priority))
    /\ call' = [op |-> "register", pre |-> registry, name |-> name]
    /\ RegistryFrame

AttachHandler(name, handler) ==
    /\ registry' = attach_handler(registry, name, handler)
    /\ call' = [op |-> "attach_handler", pre |-> registry, name |-> name,
                handler |-> handler]
    /\ RegistryFrame

\* ACTION_REGISTRY.get(name).dispatch(), as the callers do: nothing is
\* dispatched for a name that get does not find
Dispatch(name, first, second) ==
    /\ name \in DOMAIN registry
    /\ \E r \in {dispatch(registry[name], first, second)} :
          call' = [op |-> "dispatch", pre |-> registry, name |-> name,
                   handler |-> registry[name].handler, first |-> first,
                   second |-> second, invoked |-> r.invoked, ran |-> r.ran,
                   raised |-> r.raised]
    /\ UNCHANGED registry
    /\ RegistryFrame

RegistryNext ==
    \/ \E name \in RegistryNames, priority \in Priorities : Register(name, priority)
    \/ \E name \in RegistryNames, handler \in Handlers : AttachHandler(name, handler)
    \/ \E name \in RegistryNames, first \in Outcomes, second \in Outcomes :
          Dispatch(name, first, second)

SpecRegistry == RegistryInit /\ [][RegistryNext]_vars

-----------------------------------------------------------------------------
(* The life loop of run_realtime.main, one action per step of a cycle, and *)
(* the hotword worker publishing beside it.  loop.log lists the steps the  *)
(* current cycle has taken and loop.ticks counts its StateManager.tick     *)
(* calls.  Clock: speech capture takes a second here, the pause after an   *)
(* emotion two, a cycle a tenth of a second.                               *)

MaxCycles == 2

MaxPending == 3

\* what the perception layer of decide finds in a frame, or that it raises
Perceptions ==
    {[raises |-> TRUE, face |-> NoFace, gesture |-> "NONE"]}
        \cup {[raises |-> FALSE, face |-> f, gesture |-> g] :
                f \in {NoFace, [present |-> TRUE, area |-> 30000, confidence |-> 80000],
                       [present |-> TRUE, area |-> 10000, confidence |-> 80000]},
                g \in {"NONE", "Thumb_Up"}}

\* the audio set-up of main: no audio at all (--no-audio, or the hotword
\* detector failed to start), hotword only (no Vosk model found), or all of it
AudioSetups ==
    { [hotword |-> FALSE, voice |-> FALSE], [hotword |-> TRUE, voice |-> FALSE],
      [hotword |-> TRUE, voice |-> TRUE] }

LoopInit ==
    /\ state = InternalState
    /\ now = 0
    /\ last_interaction_ts = 0
    /\ last_tick_ts = 0
    /\ recent_actions = <<>>
    /\ call = [op |-> "__init__"]
    /\ steps = 0
    /\ registry = attach_stub_handlers(default_registry)
    /\ event_queue = <<>>
    /\ \E audio \in AudioSetups :
          loop = [ pc |-> "read", cycle |-> 0, log |-> <<>>, ticks |-> 0,
                   exit |-> "NONE", hotword |-> audio.hotword,
                   voice |-> audio.voice, action |-> "NONE" ]
    /\ hotword = no_detector
    /\ capture = not_capturing

Step(name) == Append(loop.log, name)

\* an exception that leaves the while loop: only KeyboardInterrupt is handled
Leave(reason) == [loop EXCEPT !.pc = "done", !.exit = reason]

\* ret, frame = cap.read(); if not ret: break
ReadFrame(ret) ==
    /\ loop.pc = "read"
    /\ loop.cycle < MaxCycles
    /\ loop' = IF ret THEN [loop EXCEPT !.pc = "drain", !.log = <<>>, !.ticks = 0]
               ELSE Leave("camera_lost")
    /\ call' = [op |-> "cap.read", ret |-> ret]
    /\ UNCHANGED <<manager_vars, now, steps, audio_vars, registry, event_queue>>

\* events = hotword.drain_events(); any(e.summary == "hotword_detected" ...)
DrainEvents ==
    /\ loop.pc = "drain"
    /\ event_queue' = IF loop.hotword THEN <<>> ELSE event_queue
    /\ loop' = [loop EXCEPT !.pc =
                  IF loop.hotword
                     /\ \E i \in 1..Len(event_queue) :
                           event_queue[i].summary = "hotword_detected"
                  THEN "listen" ELSE "think"]
    /\ call' = [op |-> "drain_events", events |-> event_queue]
    /\ UNCHANGED <<manager_vars, now, steps, audio_vars, registry>>

\* ACTION_REGISTRY.get(LISTEN_TO_USER).dispatch(), outside the try
Listen(first, second) ==
    /\ loop.pc = "listen"
    /\ \E r \in {dispatch(registry["LISTEN_TO_USER"], first, second)} :
          /\ loop' = IF r.raised THEN Leave("handler_error")
                     ELSE [loop EXCEPT !.log = Step("listen"),
                                       !.pc = IF loop.voice THEN "capture" ELSE "think"]
          /\ call' = [op |-> "dispatch", name |-> "LISTEN_TO_USER",
                      handler |-> registry["LISTEN_TO_USER"].handler,
                      invoked |-> r.invoked, raised |-> r.raised]
    /\ UNCHANGED <<manager_vars, now, steps, audio_vars, registry, event_queue>>

\* audio_data = recorder.capture(); an exception is caught by the loop's try
Capture(ok) ==
    /\ loop.pc = "capture"
    /\ now' = now + 10
    /\ loop' = [loop EXCEPT !.log = Step("capture"),
                            !.pc = IF ok THEN "transcribe" ELSE "think"]
    /\ call' = [op |-> "capture", ok |-> ok]
    /\ UNCHANGED <<manager_vars, steps, audio_vars, registry, event_queue>>

\* user_text = recognizer.transcribe_text(audio_data); if user_text: ...
Transcribe(result) ==
    /\ loop.pc = "transcribe"
    /\ loop' = [loop EXCEPT !.log = Step("transcribe"),
                            !.pc = IF result = "text" THEN "respond" ELSE "think"]
    /\ call' = [op |-> "transcribe_text", result |-> result]
    /\ UNCHANGED <<manager_vars, now, steps, audio_vars, registry, event_queue>>

\* action_response = llm_engine.decide_action_from_text(user_text), the
\* dispatch of its descriptor and time.sleep(2.0), all inside the try
Respond(reply, first, second) ==
    /\ loop.pc = "respond"
    /\ \E r \in {decide_action_from_text(Self, now, reply)} :
          /\ Store(r.m)
          /\ LET emoted ==
                     IF r.raised \/ r.action \notin DOMAIN registry
                     THEN [invoked |-> 0, ran |-> 0, raised |-> r.raised]
                     ELSE dispatch(registry[r.action], first, second)
             IN  /\ loop' = [loop EXCEPT
                       !.ticks = loop.ticks + 1,
                       !.pc = "think",
                       !.log = IF r.raised THEN Step("delegate")
                               ELSE IF emoted.raised
                               THEN loop.log \o <<"delegate", "dispatch">>
                               ELSE loop.log \o <<"delegate", "dispatch", "pause">>]
                 /\ now' = IF r.raised \/ emoted.raised THEN now ELSE now + 20
          /\ call' = [op |-> "decide_action_from_text", pre |-> Self,
                      reply |-> reply, raised |-> r.raised, action |-> r.action]
    /\ UNCHANGED <<steps, audio_vars, registry, event_queue>>

\* decision = brain.decide(frame, is_listening=False, is_touching=False)
Think(perception) ==
    /\ loop.pc = "think"
    /\ IF perception.raises
       THEN /\ loop' = Leave("perception_error")
            /\ call' = [op |-> "decide", raised |-> TRUE]
            /\ UNCHANGED manager_vars
       ELSE \E r \in {decide(Self, now, perception.face, perception.gesture,
                             FALSE, FALSE)} :
               /\ Store(r.m)
               /\ loop' = [loop EXCEPT !.pc = "act", !.log = Step("decide"),
                                       !.ticks = loop.ticks + 1,
                                       !.action = r.action]
               /\ call' = [op |-> "decide", raised |-> FALSE, pre |-> Self,
                           face |-> perception.face, gesture |-> perception.gesture,
                           is_listening |-> FALSE, is_touching |-> FALSE,
                           ticked |-> r.ticked, current_state |-> r.current_state,
                           scores |-> r.scores, overridden |-> r.overridden,
                           action |-> r.action]
    /\ UNCHANGED <<now, steps, audio_vars, registry, event_queue>>

\* ACTION_REGISTRY.get(action_name).dispatch(...), outside any try, and the
\* rate limit that ends the cycle
Act(first, second) ==
    /\ loop.pc = "act"
    /\ \E r \in {dispatch(registry[loop.action], first, second)} :
          /\ loop' = IF r.raised THEN Leave("handler_error")
                     ELSE [loop EXCEPT !.pc = "read", !.cycle = loop.cycle + 1]
          /\ call' = [op |-> "dispatch", name |-> loop.action,
                      handler |-> registry[loop.action].handler,
                      invoked |-> r.invoked, raised |-> r.raised]
    /\ now' = now + 1
    /\ UNCHANGED <<manager_vars, steps, audio_vars, registry, event_queue>>

\* HotwordDetector._run: the worker thread publishes a detected wake word
Publish ==
    /\ loop.hotword
    /\ loop.pc # "done"
    /\ Len(event_queue) < MaxPending
    /\ ~full(event_queue)
    /\ event_queue' = put(event_queue, AudioEvent)
    /\ UNCHANGED <<manager_vars, now, call, steps, audio_vars, registry, loop>>

LoopNext ==
    \/ \E ret \in BOOLEAN : ReadFrame(ret)
    \/ DrainEvents
    \/ \E first \in Outcomes, second \in Outcomes : Listen(first, second)
    \/ \E ok \in BOOLEAN : Capture(ok)
    \/ \E result \in {"text", "silence", "raises"} : Transcribe(result)
    \/ \E reply \in Replies, first \in Outcomes, second \in Outcomes :
          Respond(reply, first, second)
    \/ \E perception \in Perceptions : Think(perception)
    \/ \E first \in Outcomes, second \in Outcomes : Act(first, second)
    \/ Publish

SpecLoop == LoopInit /\ [][LoopNext]_vars

-----------------------------------------------------------------------------
(* SpeechRecorder.capture.  One call: the recorder is made and started,    *)
(* then frames are read until the loop breaks or a read raises.  Times in  *)
(* capture are hundredths of a second, capture.clock the reading of        *)
(* time.time(); capture.reads counts the reads that returned a frame.      *)

max_duration == 450

min_duration == 35

silence_timeout == 80

silence_threshold == 500

\* how long recorder.read blocks: a frame of 512 samples at 16 kHz, or a stall
ReadTimes == {3, 40}

\* the frames read: quiet, as loud as the threshold, or without samples
Pcms ==
    { [length |-> 512, energy |-> 100], [length |-> 512, energy |-> 500],
      [length |-> 0, energy |-> 0] }

\* as capture_frame, breaking only once more than max_duration has elapsed
capture_frame_past_max(c, t, pcm) ==
    LET elapsed == t - c.start_time
        read == [c EXCEPT !.frames = c.frames + 1]
    IN  IF elapsed > max_duration THEN [read EXCEPT !.exit = "max_duration"]
        ELSE IF pcm.length = 0 THEN [read EXCEPT !.exit = "error"]
        ELSE IF pcm.energy >= silence_threshold
             THEN [read EXCEPT !.silence_start = -1]
        ELSE IF elapsed < min_duration THEN read
        ELSE IF c.silence_start = -1 THEN [read EXCEPT !.silence_start = t]
        ELSE IF t - c.silence_start >= silence_timeout
             THEN [read EXCEPT !.exit = "silence"]
        ELSE read

\* the body of the while loop for a frame pcm read at time t; silence_start
\* -1 is None, exit says why the loop is left ("none": it is not); a frame
\* without samples makes the energy computation divide by zero
capture_frame(c, t, pcm) ==
    LET elapsed == t - c.start_time
        read == [c EXCEPT !.frames = c.frames + 1]
    IN  IF elapsed >= max_duration THEN [read EXCEPT !.exit = "max_duration"]
        ELSE IF pcm.length = 0 THEN [read EXCEPT !.exit = "error"]
        ELSE IF pcm.energy >= silence_threshold
             THEN [read EXCEPT !.silence_start = -1]
        ELSE IF elapsed < min_duration THEN read
        ELSE IF c.silence_start = -1 THEN [read EXCEPT !.silence_start = t]
        ELSE IF t - c.silence_start >= silence_timeout
             THEN [read EXCEPT !.exit = "silence"]
        ELSE read

\* SpeechRecorder.capture about to be called
capture_called ==
    [ pc |-> "called", clock |-> 0, frames |-> 0, start_time |-> 0,
      silence_start |-> -1, exit |-> "none", recorder |-> "none",
      reads |-> 0, result |-> -1 ]

CaptureInit ==
    /\ state = InternalState
    /\ now = 0
    /\ last_interaction_ts = 0
    /\ last_tick_ts = 0
    /\ recent_actions = <<>>
    /\ call = [op |-> "__init__"]
    /\ steps = 0
    /\ registry = default_registry
    /\ event_queue = <<>>
    /\ loop = not_started
    /\ hotword = no_detector
    /\ capture = capture_called

CaptureFrame == UNCHANGED <<manager_vars, now, call, steps, registry, event_queue,
                            loop, hotword>>

\* the finally block and the return: the frames appended so far are returned
capture_return(c, why) ==
    [c EXCEPT !.pc = "returned", !.exit = why, !.recorder = "deleted",
              !.result = c.frames]

\* PvRecorder(...) outside the try, then recorder.start() inside it
CaptureEnter(made, started) ==
    /\ capture.pc = "called"
    /\ capture' =
          IF ~made THEN [capture EXCEPT !.pc = "raised"]
          ELSE IF ~started THEN capture_return(capture, "error")
          ELSE [capture EXCEPT !.pc = "reading", !.recorder = "started",
                               !.start_time = capture.clock]
    /\ CaptureFrame

\* one pass of the loop: recorder.read() returns pcm after d hundredths of a
\* second, or raises
CaptureRead(d, ok, pcm) ==
    /\ capture.pc = "reading"
    /\ LET at == [capture EXCEPT !.clock = capture.clock + d]
       IN  IF ~ok THEN capture' = capture_return(at, "error")
           ELSE \E c \in {capture_frame([at EXCEPT !.reads = at.reads + 1],
                                        at.clock, pcm)} :
                   capture' = IF c.exit = "none" THEN c
                              ELSE capture_return(c, c.exit)
    /\ CaptureFrame

CaptureNext ==
    \/ \E made \in BOOLEAN, started \in BOOLEAN : CaptureEnter(made, started)
    \/ \E d \in ReadTimes, ok \in BOOLEAN, pcm \in Pcms : CaptureRead(d, ok, pcm)

\* the recorder is made or fails, and every recorder.read returns or raises
SpecCapture == CaptureInit /\ [][CaptureNext]_vars /\ WF_vars(CaptureNext)

-----------------------------------------------------------------------------
(* HotwordDetector.  The worker thread _run beside the thread that made    *)
(* the detector and calls start, drain_events and close on it, one action  *)
(* per step either thread takes between two points where the other may    *)
(* run.  hotword.worker and hotword.main are the two threads' positions;   *)
(* what follows "the record of the run" in detector_made is not state of   *)
(* the program.                                                            *)

MaxEvents == 3

\* the n-th AudioEvent object _run makes; serial tells the objects apart
hotword_detected(n) == [summary |-> "hotword_detected", index |-> 0, serial |-> n]

\* Queue.empty
empty(q) == Len(q) = 0

\* as get_nowait, taking the newest event
get_nowait_newest(q) == [event |-> q[Len(q)], queue |-> SubSeq(q, 1, Len(q) - 1)]

\* Queue.get_nowait on a queue that is not empty
get_nowait(q) == [event |-> Head(q), queue |-> Tail(q)]

\* HotwordDetector.__init__ has returned
detector_made ==
    [ is_running |-> FALSE, thread |-> "none", recorder |-> "made",
      porcupine |-> "made", worker |-> "idle", main |-> "ready", events |-> <<>>,
      \* the record of the run
      put |-> 0,             \* events enqueued so far
      returned |-> <<>>,     \* the events drain_events has returned, in order
      closing |-> FALSE,     \* close has cleared the flag
      late_reads |-> 0,      \* reads completed since then (counted up to 2)
      timed_out |-> FALSE,   \* the join in close timed out
      misuse |-> "none" ]    \* what the worker did on a released object

HotwordInit ==
    /\ state = InternalState
    /\ now = 0
    /\ last_interaction_ts = 0
    /\ last_tick_ts = 0
    /\ recent_actions = <<>>
    /\ call = [op |-> "__init__"]
    /\ steps = 0
    /\ registry = default_registry
    /\ event_queue = <<>>
    /\ loop = not_started
    /\ hotword = detector_made
    /\ capture = not_capturing

HotwordFrame == UNCHANGED <<manager_vars, now, call, steps, registry, loop, capture>>

\* start(): the flag is set, the recorder started, the thread created
Start ==
    /\ hotword.main = "ready" /\ hotword.thread = "none" /\ ~hotword.is_running
    /\ hotword' = [hotword EXCEPT !.is_running = TRUE, !.recorder = "started",
                                  !.thread = "alive", !.worker = "test"]
    /\ UNCHANGED event_queue
    /\ HotwordFrame

\* as WorkerTest, for a worker that does not look at the flag
WorkerTest_unconditional ==
    /\ hotword.worker = "test"
    /\ hotword' = [hotword EXCEPT !.worker = "read"]
    /\ UNCHANGED event_queue
    /\ HotwordFrame

\* _run: while self._is_running
WorkerTest ==
    /\ hotword.worker = "test"
    /\ hotword' = [hotword EXCEPT !.worker =
                      IF hotword.is_running THEN "read" ELSE "finally"]
    /\ UNCHANGED event_queue
    /\ HotwordFrame

\* _run: pcm = self._recorder.read() returns a frame or raises; on a recorder
\* that close has stopped or deleted either may happen
WorkerRead(ok) ==
    /\ hotword.worker = "read"
    /\ hotword' = [hotword EXCEPT
          !.worker = IF ok THEN "process" ELSE "finally",
          !.late_reads = IF hotword.closing THEN Min(@ + 1, 2) ELSE @,
          !.misuse = IF hotword.recorder # "started" THEN "read" ELSE @]
    /\ UNCHANGED event_queue
    /\ HotwordFrame

\* _run: keyword_index = self._porcupine.process(pcm): no keyword (-1), the
\* first keyword (0), or an exception; on a deleted engine any of them
WorkerProcess(keyword_index, ok) ==
    /\ hotword.worker = "process"
    /\ keyword_index >= 0 => hotword.put < MaxEvents
    /\ hotword' = [hotword EXCEPT
          !.worker = IF ~ok THEN "finally"
                     ELSE IF keyword_index >= 0 THEN "put" ELSE "test",
          !.misuse = IF hotword.porcupine # "made" THEN "process" ELSE @]
    /\ UNCHANGED event_queue
    /\ HotwordFrame

\* _run: self._event_queue.put(event)
WorkerPut ==
    /\ hotword.worker = "put"
    /\ ~full(event_queue)
    /\ event_queue' = put(event_queue, hotword_detected(hotword.put + 1))
    /\ hotword' = [hotword EXCEPT !.worker = "test", !.put = @ + 1]
    /\ HotwordFrame

\* _run: finally: self._is_running = False, and the thread ends
WorkerFinally ==
    /\ hotword.worker = "finally"
    /\ hotword' = [hotword EXCEPT !.worker = "done", !.thread = "finished",
                                  !.is_running = FALSE]
    /\ UNCHANGED event_queue
    /\ HotwordFrame

WorkerNext ==
    \/ WorkerTest
    \/ \E ok \in BOOLEAN : WorkerRead(ok)
    \/ \E keyword_index \in {-1, 0}, ok \in BOOLEAN : WorkerProcess(keyword_index, ok)
    \/ WorkerPut
    \/ WorkerFinally

\* drain_events(): events = []
DrainBegin ==
    /\ hotword.main = "ready"
    /\ hotword' = [hotword EXCEPT !.main = "drain_test", !.events = <<>>]
    /\ UNCHANGED event_queue
    /\ HotwordFrame

\* drain_events: while not self._event_queue.empty(), else return events
DrainTest ==
    /\ hotword.main = "drain_test"
    /\ hotword' = IF empty(event_queue)
                  THEN [hotword EXCEPT !.main = "ready", !.events = <<>>,
                                       !.returned = @ \o hotword.events]
                  ELSE [hotword EXCEPT !.main = "drain_get"]
    /\ UNCHANGED event_queue
    /\ HotwordFrame

\* drain_events: events.append(self._event_queue.get_nowait())
DrainGet ==
    /\ hotword.main = "drain_get"
    /\ \E got \in {get_nowait(event_queue)} :
          /\ event_queue' = got.queue
          /\ hotword' = [hotword EXCEPT !.main = "drain_test",
                                        !.events = Append(@, got.event)]
    /\ HotwordFrame

DrainNext == DrainBegin \/ DrainTest \/ DrainGet

\* close(): self._is_running = False; if self._thread and
\* self._thread.is_alive(): join
CloseBegin ==
    /\ hotword.main = "ready"
    /\ hotword' = [hotword EXCEPT !.is_running = FALSE, !.closing = TRUE,
                                  !.main = IF hotword.thread = "alive"
                                           THEN "join" ELSE "stop"]
    /\ UNCHANGED event_queue
    /\ HotwordFrame

\* close: self._thread.join(timeout=1.0) returns, the thread finished or the
\* second over
Join(timed_out) ==
    /\ hotword.main = "join"
    /\ timed_out \/ hotword.thread = "finished"
    /\ hotword' = [hotword EXCEPT !.main = "stop",
                                  !.timed_out = timed_out /\ hotword.thread = "alive"]
    /\ UNCHANGED event_queue
    /\ HotwordFrame

\* close: self._recorder.stop(), self._recorder.delete(),
\* self._porcupine.delete(), one at a time
Release ==
    /\ hotword.main \in {"stop", "delete", "delete_porcupine"}
    /\ hotword' =
          IF hotword.main = "stop"
          THEN [hotword EXCEPT !.main = "delete", !.recorder = "stopped"]
          ELSE IF hotword.main = "delete"
          THEN [hotword EXCEPT !.main = "delete_porcupine", !.recorder = "deleted"]
          ELSE [hotword EXCEPT !.main = "closed", !.porcupine = "deleted"]
    /\ UNCHANGED event_queue
    /\ HotwordFrame

CloseNext ==
    \/ CloseBegin
    \/ \E timed_out \in BOOLEAN : Join(timed_out)
    \/ Release

HotwordNext == Start \/ WorkerNext \/ DrainNext \/ CloseNext

\* the worker thread is scheduled and its calls return or raise; the calling
\* thread goes on calling, and what it calls returns (join after a second at
\* the latest)
SpecHotword ==
    /\ HotwordInit /\ [][HotwordNext]_vars
    /\ WF_vars(WorkerNext)
    /\ WF_vars(DrainNext \/ CloseNext)

-----------------------------------------------------------------------------
(* Properties *)

Drives == {"energy", "curiosity", "confidence", "attention_hunger", "excitement", "caution"}

\* C1: when a tick, register_interaction, update_face_target or
\* update_after_action call (and a decide call, which is made of them) has
\* returned, each of the six drives lies in [0, 1].
C1_DrivesBounded == \A f \in Drives : 0 <= state[f] /\ state[f] <= One

\* C1 witness: update_after_action(FOLLOW_PERSON) has run with less energy than
\* the action costs, and the trailing clamp has floored it.
C1_Witness ==
    /\ call.op = "update_after_action"
    /\ call.action = "FOLLOW_PERSON"
    /\ call.pre.state.energy < 4000
    /\ state.energy = 0

\* C2 (as claimed): whenever the manager's energy is below 0.15 when decide
\* evaluates the cascade, decide returns GO_TO_SLEEP.
C2_LowEnergySleeps ==
    (call.op = "decide" /\ call.ticked.state.energy < 15000)
        => call.action = "GO_TO_SLEEP"

\* C3: when is_listening is true and the energy is not below 0.15, decide returns
\* IGNORE, whatever the face (also one with area > 0.28), the gesture and
\* is_touching are.
C3_ListeningFirst ==
    (call.op = "decide" /\ call.is_listening /\ call.current_state.energy >= 15000)
        => call.action = "IGNORE"

\* C3 witness: a decide call with is_listening, a face of area > 0.28, a stop
\* gesture and touch that returned IGNORE.
C3_Witness ==
    /\ call.op = "decide"
    /\ call.is_listening /\ call.is_touching
    /\ call.face.present /\ call.face.area > 28000
    /\ call.gesture = "Stop"
    /\ call.ticked.state.energy >= 15000
    /\ call.action = "IGNORE"

C4_StopGesture == call.gesture = "Open_Palm" \/ call.gesture = "Stop"

C4_TooClose == call.face.present /\ call.face.area > 28000

\* C4: when the energy is not low and is_listening is false, the first matching
\* condition in the order stop gesture, Thumb_Up, touch, face area > 0.28 fixes
\* the returned action, and the scored pool is used only when none matches.
C4_CascadeOrder ==
    (call.op = "decide" /\ ~call.is_listening /\ call.current_state.energy >= 15000)
        => /\ C4_StopGesture => call.action = "AVOID_OBSTACLE"
           /\ call.gesture = "Thumb_Up" => call.action = "DO_A_HAPPY_DANCE"
           /\ (call.gesture \notin {"Open_Palm", "Stop", "Thumb_Up"} /\ call.is_touching)
                 => call.action = "WIGGLE_EXCITEDLY"
           /\ (call.gesture \notin {"Open_Palm", "Stop", "Thumb_Up"}
                 /\ ~call.is_touching /\ C4_TooClose)
                 => call.action = "BACK_AWAY_SCARED"
           /\ ~call.overridden
                 <=> (call.gesture \notin {"Open_Palm", "Stop", "Thumb_Up"}
                         /\ ~call.is_touching /\ ~C4_TooClose)

\* C4 witness: a stop gesture together with touch and a face that is too close
\* returned AVOID_OBSTACLE.
C4_Witness ==
    /\ call.op = "decide"
    /\ ~call.is_listening /\ call.current_state.energy >= 15000
    /\ call.gesture = "Stop" /\ call.is_touching /\ C4_TooClose
    /\ call.action = "AVOID_OBSTACLE"

\* C5 (as claimed): every decide call, whether its winner comes from an override
\* tier or from the pool, has applied update_after_action(winner) exactly once:
\* last_action is the returned action and the winner is the newest entry of
\* recent_actions.
C5_FeedbackApplied ==
    call.op = "decide"
        => /\ state.last_action = call.action
           /\ recent_actions = deque_append(call.pre.recent_actions, call.action)

\* C6: decide returns exactly one action of the closed action set; when no
\* override fires the pool holds LOOK_AROUND and DO_A_HAPPY_DANCE, so it is not
\* empty, and the returned action is one of its entries.
C6_AlwaysOneAction ==
    call.op = "decide"
        => /\ call.action \in ActionName
           /\ ~call.overridden
                 => /\ \E i \in 1..Len(call.scores) : call.scores[i].action = "LOOK_AROUND"
                    /\ \E i \in 1..Len(call.scores) :
                          call.scores[i].action = "DO_A_HAPPY_DANCE"
                    /\ \E i \in 1..Len(call.scores) : call.scores[i].action = call.action

\* C6 witness: a decide call in which no override fired, with a face in view.
C6_Witness ==
    /\ call.op = "decide"
    /\ ~call.overridden
    /\ call.face.present
    /\ call.action \in ActionName

\* the score the scoring rules give action a for snapshot cs and face
C7_Score(a, cs, face) ==
    CASE a = "FOLLOW_PERSON" ->
            IF face.present THEN cs.attention_hunger * 2 + 50000 ELSE 0
      [] a = "GREET_HAPPILY" ->
            IF face.present /\ cs.curiosity > 60000 THEN 120000 ELSE 0
      [] a = "SEARCH_FOR_HUMAN" ->
            IF ~face.present /\ cs.attention_hunger > 70000
            THEN (cs.attention_hunger * 3) \div 2 ELSE 0
      [] a = "DO_A_HAPPY_DANCE" ->
            ((cs.excitement \div 100) * (cs.energy \div 100) * 7) \div 100
      [] a = "LOOK_AROUND" -> 20000
      [] a = "TILT_HEAD_CURIOUSLY" ->
            IF face.present /\ cs.curiosity > 50000 THEN (cs.curiosity * 6) \div 5 ELSE 0
      [] a = "COME_CLOSER" ->
            IF face.present /\ cs.attention_hunger > 85000
            THEN cs.attention_hunger * 3 ELSE 0
      [] a = "STRETCH" ->
            IF cs.boredom > 40000 /\ cs.boredom < 80000 THEN (cs.boredom * 4) \div 5 ELSE 0
      [] a = "GO_TO_SLEEP" -> cs.boredom + (One - cs.energy) \div 2

\* the pool order of the tie-break
C8_Order ==
    << "FOLLOW_PERSON", "GREET_HAPPILY", "SEARCH_FOR_HUMAN", "DO_A_HAPPY_DANCE",
       "LOOK_AROUND", "GO_TO_SLEEP", "TILT_HEAD_CURIOUSLY", "COME_CLOSER", "STRETCH" >>

\* the candidates: GO_TO_SLEEP only when napScore > 0.8
C7_Candidates(cs, face) ==
    { C8_Order[i] : i \in 1..Len(C8_Order) }
        \ (IF C7_Score("GO_TO_SLEEP", cs, face) > 80000 THEN {} ELSE {"GO_TO_SLEEP"})

C8_Pos(a) == CHOOSE i \in 1..Len(C8_Order) : C8_Order[i] = a

\* C7: when no override fires, the returned action is a candidate and its score,
\* computed from the snapshot by the scoring rules, is at least every other
\* candidate's.
C7_WinnerIsArgMax ==
    (call.op = "decide" /\ ~call.overridden)
        => /\ call.action \in C7_Candidates(call.current_state, call.face)
           /\ \A b \in C7_Candidates(call.current_state, call.face) :
                 C7_Score(b, call.current_state, call.face)
                    <= C7_Score(call.action, call.current_state, call.face)

\* C7 witness: STRETCH won the pool with a score above the LOOK_AROUND baseline.
C7_Witness ==
    /\ call.op = "decide"
    /\ ~call.overridden
    /\ call.action = "STRETCH"
    /\ C7_Score("STRETCH", call.current_state, call.face) > 20000

\* C8: when no override fires and several candidates share the maximal score,
\* the returned action is the one of them that is entered first into the pool.
C8_FirstOfTies ==
    (call.op = "decide" /\ ~call.overridden)
        => \A b \in C7_Candidates(call.current_state, call.face) :
              C7_Score(b, call.current_state, call.face)
                    = C7_Score(call.action, call.current_state, call.face)
                 => C8_Pos(call.action) <= C8_Pos(b)

\* C8 witness: FOLLOW_PERSON and GREET_HAPPILY tied at the maximal score 1.2 and
\* FOLLOW_PERSON was returned.
C8_Witness ==
    /\ call.op = "decide"
    /\ ~call.overridden
    /\ call.action = "FOLLOW_PERSON"
    /\ C7_Score("FOLLOW_PERSON", call.current_state, call.face) = 120000
    /\ C7_Score("GREET_HAPPILY", call.current_state, call.face) = 120000

\* C9: with a face in view, no override firing and a snapshot attention_hunger
\* above 0.85, COME_CLOSER scores strictly more than every other candidate and
\* decide returns it.
C9_ComeCloserWins ==
    (call.op = "decide" /\ ~call.overridden /\ call.face.present
        /\ call.current_state.attention_hunger > 85000)
        => /\ call.action = "COME_CLOSER"
           /\ \A i \in 1..Len(call.scores) :
                 call.scores[i].action # "COME_CLOSER"
                    => call.scores[i].score < call.current_state.attention_hunger * 3

\* C9 witness: COME_CLOSER was returned with FOLLOW_PERSON and GREET_HAPPILY in
\* the pool.
C9_Witness ==
    /\ call.op = "decide"
    /\ ~call.overridden
    /\ call.face.present
    /\ call.current_state.attention_hunger > 85000
    /\ call.current_state.curiosity > 60000
    /\ call.action = "COME_CLOSER"

C10_Search == (call.current_state.attention_hunger * 3) \div 2

C10_Nap == call.current_state.boredom + (One - call.current_state.energy) \div 2

\* C10: with no face, no override firing and a snapshot attention_hunger above
\* 0.7, no candidate other than GO_TO_SLEEP scores more than SEARCH_FOR_HUMAN's
\* attention_hunger * 1.5, and SEARCH_FOR_HUMAN is returned whenever GO_TO_SLEEP
\* is not in the pool or its napScore is not greater than that score.
C10_SearchWins ==
    (call.op = "decide" /\ ~call.overridden /\ ~call.face.present
        /\ call.current_state.attention_hunger > 70000)
        => /\ \A i \in 1..Len(call.scores) :
                 call.scores[i].action # "GO_TO_SLEEP"
                    => call.scores[i].score <= C10_Search
           /\ (C10_Nap <= 80000 \/ C10_Nap <= C10_Search)
                 => call.action = "SEARCH_FOR_HUMAN"

\* C10 witness: GO_TO_SLEEP was in the pool with a napScore not above the
\* SEARCH_FOR_HUMAN score, and SEARCH_FOR_HUMAN was returned.
C10_Witness ==
    /\ call.op = "decide"
    /\ ~call.overridden
    /\ ~call.face.present
    /\ call.current_state.attention_hunger > 70000
    /\ C10_Nap > 80000
    /\ C10_Nap <= C10_Search
    /\ call.action = "SEARCH_FOR_HUMAN"

C11_Nap == C7_Score("GO_TO_SLEEP", call.current_state, call.face)

C11_InPool == \E i \in 1..Len(call.scores) : call.scores[i].action = "GO_TO_SLEEP"

\* C11: when no override fires, GO_TO_SLEEP is in the pool exactly when
\* napScore = boredom + (1 - energy) * 0.5 is greater than 0.8, its score is
\* then napScore, and it is returned exactly when napScore is strictly greater
\* than the score of every candidate entered before it and at least the score
\* of every candidate entered after it.
C11_NapCandidate ==
    (call.op = "decide" /\ ~call.overridden)
        => /\ C11_InPool <=> C11_Nap > 80000
           /\ \A i \in 1..Len(call.scores) :
                 call.scores[i].action = "GO_TO_SLEEP" => call.scores[i].score = C11_Nap
           /\ call.action = "GO_TO_SLEEP"
                 <=> /\ C11_Nap > 80000
                     /\ \A b \in C7_Candidates(call.current_state, call.face) :
                           /\ C8_Pos(b) < C8_Pos("GO_TO_SLEEP")
                                 => C7_Score(b, call.current_state, call.face) < C11_Nap
                           /\ C8_Pos(b) > C8_Pos("GO_TO_SLEEP")
                                 => C7_Score(b, call.current_state, call.face) <= C11_Nap

\* C11 witness: GO_TO_SLEEP was in the pool with napScore > 0.8 and won it,
\* with STRETCH, entered after it, scoring above the baseline.
C11_Witness ==
    /\ call.op = "decide"
    /\ ~call.overridden
    /\ C11_Nap > 80000
    /\ call.action = "GO_TO_SLEEP"
    /\ C7_Score("STRETCH", call.current_state, call.face) > 20000

\* C12: a tick whose elapsed time since the previous tick is zero leaves every
\* drive, the mood, the idle timer, last_action and recent_actions unchanged.
C12_ZeroTickNoOp ==
    (call.op = "tick" /\ call.delta = 0)
        => /\ state = call.pre.state
           /\ last_interaction_ts = call.pre.last_interaction_ts
           /\ recent_actions = call.pre.recent_actions

\* C12 witness: a tick with zero elapsed time on a manager that has acted, has
\* lost its energy and has been idle for longer than boredom_timeout.
C12_Witness ==
    /\ call.op = "tick"
    /\ call.delta = 0
    /\ now - last_interaction_ts > boredom_timeout
    /\ state.last_action # "NONE"
    /\ state.curiosity < One
    /\ state = call.pre.state

\* C13: a tick made when the clock reads earlier than at the previous tick
\* changes no drive value (nor the mood, last_action or the idle timer), as a
\* tick with zero elapsed time.
C13_SkewTickNoOp ==
    (call.op = "tick" /\ call.delta < 0)
        => /\ state = call.pre.state
           /\ last_interaction_ts = call.pre.last_interaction_ts
           /\ recent_actions = call.pre.recent_actions

\* C13 witness: a tick with the clock set back, on a manager whose drives are
\* not at their bounds, has changed nothing.
C13_Witness ==
    /\ call.op = "tick"
    /\ call.delta < 0
    /\ state.energy > 0 /\ state.attention_hunger < One /\ state.caution > 0
    /\ state.last_action # "NONE"
    /\ state = call.pre.state

\* C14: a tick with positive elapsed time never lowers curiosity or
\* attention_hunger and raises each of them strictly while it is below 1.0; the
\* rise per second is 0.004 for curiosity and 0.015 for attention_hunger, and
\* is multiplied by 1.8 and by 2.0 when the idle time exceeds boredom_timeout.
C14_Idle == now - call.pre.last_interaction_ts

C14_CuriosityRate == IF C14_Idle > boredom_timeout THEN 72 ELSE 40

C14_AttentionRate == IF C14_Idle > boredom_timeout THEN 300 ELSE 150

C14_IdleGrowth ==
    (call.op = "tick" /\ call.delta > 0)
        => LET pre == call.pre.state
           IN  /\ state.curiosity
                    = Min(One, pre.curiosity + C14_CuriosityRate * call.delta)
               /\ state.attention_hunger
                    = Min(One, pre.attention_hunger + C14_AttentionRate * call.delta)
               /\ state.curiosity >= pre.curiosity
               /\ state.attention_hunger >= pre.attention_hunger
               /\ pre.curiosity < One => state.curiosity > pre.curiosity
               /\ pre.attention_hunger < One
                    => state.attention_hunger > pre.attention_hunger

\* C14 witness: a tick made after more than boredom_timeout of idle time has
\* raised both drives by the multiplied rise, below the ceiling.
C14_Witness ==
    /\ call.op = "tick"
    /\ call.delta > 0
    /\ C14_Idle > boredom_timeout
    /\ state.curiosity = call.pre.state.curiosity + 72 * call.delta
    /\ state.curiosity < One
    /\ state.attention_hunger = call.pre.state.attention_hunger + 300 * call.delta
    /\ state.attention_hunger < One

\* C15, all of the claim but caution: register_interaction resets the idle time
\* to zero, never increases curiosity or attention_hunger, never decreases
\* confidence or excitement, leaves energy and mood unchanged, and records the
\* person exactly when one is given.
C15_OtherEffects ==
    call.op = "register_interaction"
        => LET pre == call.pre.state
           IN  /\ last_interaction_ts = now
               /\ state.curiosity <= pre.curiosity
               /\ state.attention_hunger <= pre.attention_hunger
               /\ state.confidence >= pre.confidence
               /\ state.excitement >= pre.excitement
               /\ state.energy = pre.energy
               /\ state.mood = pre.mood
               /\ state.recognized_person
                    = IF call.person # "NONE" THEN call.person
                      ELSE pre.recognized_person

\* C15 (as claimed): register_interaction resets the idle time to zero, never
\* increases curiosity, attention_hunger or caution, never decreases confidence
\* or excitement, leaves energy and mood unchanged, and sets recognized_person
\* to the given person exactly when one is given.
C15_RegisterInteraction ==
    /\ C15_OtherEffects
    /\ call.op = "register_interaction" => state.caution <= call.pre.state.caution

\* C16, all of the claim but caution: update_face_target leaves curiosity,
\* excitement, energy and mood unchanged, resets the idle time to zero, raises
\* confidence by 0.02 times the detection confidence clamped to [0,1] (up to
\* 1.0), and lowers attention_hunger by 0.01, floored at 0, exactly when
\* area > 0.2.
C16_Confidence == Max(0, Min(One, call.confidence))

C16_OtherEffects ==
    call.op = "update_face_target"
        => LET pre == call.pre.state
           IN  /\ state.curiosity = pre.curiosity
               /\ state.excitement = pre.excitement
               /\ state.energy = pre.energy
               /\ state.mood = pre.mood
               /\ last_interaction_ts = now
               /\ state.confidence >= pre.confidence
               /\ state.confidence
                    = Min(One, pre.confidence + (C16_Confidence \div 50))
               /\ state.attention_hunger
                    = IF call.area > 20000
                      THEN Max(0, pre.attention_hunger - 1000)
                      ELSE pre.attention_hunger

\* C16 (as claimed): update_face_target leaves curiosity, excitement, energy and
\* mood unchanged, resets the idle time to zero, never decreases confidence and
\* never increases caution, and lowers attention_hunger (by 0.01, floored at 0)
\* exactly when area > 0.2.
C16_UpdateFaceTarget ==
    /\ C16_OtherEffects
    /\ call.op = "update_face_target" => state.caution <= call.pre.state.caution

\* C17: update_after_action(action) performs the register_interaction step (the
\* idle timer reset and its drive changes, applied to the state left by the
\* feedback table and the clamps) exactly when action is not one of IGNORE,
\* BACK_AWAY_SCARED, AVOID_OBSTACLE, GO_TO_SLEEP; for those four the idle timer
\* is left unchanged and the state is the one left by the table and the clamps.
C17_NonSocial == {"IGNORE", "BACK_AWAY_SCARED", "AVOID_OBSTACLE", "GO_TO_SLEEP"}

C17_Applies ==
    \/ call.op = "update_after_action"
    \/ call.op = "decide" /\ ~call.overridden

\* the manager on which update_after_action was called
C17_Pre == IF call.op = "decide" THEN call.ticked ELSE call.pre

\* the state left by the feedback table and the trailing clamps
C17_Mid ==
    clamp_after_update(
        action_effects([C17_Pre.state EXCEPT !.last_action = call.action],
                       call.action))

C17_RegistersUnlessNonSocial ==
    C17_Applies
        => IF call.action \in C17_NonSocial
           THEN /\ last_interaction_ts = C17_Pre.last_interaction_ts
                /\ state = C17_Mid
           ELSE /\ last_interaction_ts = now
                /\ state
                     = register_interaction([C17_Pre EXCEPT !.state = C17_Mid],
                                            now, C17_Mid.recognized_person).state

\* C17 witness: update_after_action(STRETCH), called after idle time had built
\* up, has reset the idle timer and applied register_interaction's changes to
\* confidence and attention_hunger.
C17_Witness ==
    /\ call.op = "update_after_action"
    /\ call.action = "STRETCH"
    /\ now > call.pre.last_interaction_ts
    /\ last_interaction_ts = now
    /\ state.confidence = call.pre.state.confidence + 5000
    /\ call.pre.state.attention_hunger >= 25000
    /\ state.attention_hunger = call.pre.state.attention_hunger - 25000

\* C18 (as amended): update_after_action(DO_A_HAPPY_DANCE) never increases
\* energy (it spends 0.08, floored at 0) and never lowers excitement: it adds
\* 0.2 and, in the register_interaction step, 0.04 more, capped at 1.0, so that
\* excitement is higher after the call than before it unless it was at 1.0.
C18_Dance == C17_Applies /\ call.action = "DO_A_HAPPY_DANCE"

C18_DanceSpendsEnergyRaisesExcitement ==
    C18_Dance
        => LET pre == C17_Pre.state
           IN  /\ state.energy = Max(0, pre.energy - 8000)
               /\ state.energy <= pre.energy
               /\ state.excitement = Min(One, pre.excitement + 24000)
               /\ state.excitement >= pre.excitement
               /\ pre.excitement < One => state.excitement > pre.excitement

\* C18 witness: a dance that has spent 0.08 of energy and has raised excitement
\* by 0.24, below the cap.
C18_Witness ==
    /\ C18_Dance
    /\ state.energy = C17_Pre.state.energy - 8000
    /\ state.excitement = C17_Pre.state.excitement + 24000
    /\ state.excitement < One

\* C18 (as claimed): update_after_action(DO_A_HAPPY_DANCE) never increases
\* energy and never increases excitement: after the call excitement is not
\* higher than before it.
C18_DanceDischargesExcitement ==
    C18_Dance
        => /\ state.energy <= C17_Pre.state.energy
           /\ state.excitement <= C17_Pre.state.excitement

\* C19: after update_after_action(GO_TO_SLEEP) energy equals min(1, previous
\* energy + 0.25), excitement equals 0 and mood is sleepy; curiosity,
\* confidence, attention_hunger, caution and the idle timer are unchanged.
C19_Sleep == C17_Applies /\ call.action = "GO_TO_SLEEP"

C19_SleepRecharges ==
    C19_Sleep
        => LET pre == C17_Pre.state
           IN  /\ state.energy = Min(One, pre.energy + 25000)
               /\ state.excitement = 0
               /\ state.mood = "sleepy"
               /\ state.curiosity = pre.curiosity
               /\ state.confidence = pre.confidence
               /\ state.attention_hunger = pre.attention_hunger
               /\ state.caution = pre.caution
               /\ last_interaction_ts = C17_Pre.last_interaction_ts

\* C19 witness: a sleep that has recharged 0.25 of energy below the ceiling,
\* has zeroed a positive excitement and has changed the mood, with the idle
\* timer left running.
C19_Witness ==
    /\ C19_Sleep
    /\ state.energy = C17_Pre.state.energy + 25000
    /\ state.energy < One
    /\ C17_Pre.state.excitement > 0
    /\ C17_Pre.state.mood # "sleepy"
    /\ state.mood = "sleepy"
    /\ now > last_interaction_ts

\* C20: mood changes only as an effect of update_after_action: tick,
\* register_interaction, update_face_target and get_state leave it unchanged
\* (and so does a decide call that returns from an override tier), and
\* update_after_action assigns the mood the feedback table fixes for the
\* action, leaving the mood as it is for an action without a table entry.
C20_Table ==
    [ a \in ActionName |->
        CASE a \in {"EMERGENCY_SHUTDOWN", "GO_TO_SLEEP"} -> "sleepy"
          [] a \in {"ENJOY_TOUCH", "GREET_HAPPILY"} -> "happy"
          [] a \in {"LISTEN_TO_USER", "AVOID_OBSTACLE"} -> "alert"
          [] a \in {"FOLLOW_PERSON", "COME_CLOSER"} -> "curious"
          [] a = "SEARCH_FOR_HUMAN" -> "lonely"
          [] a = "DO_A_HAPPY_DANCE" -> "playful"
          [] a = "WIGGLE_EXCITEDLY" -> "excited"
          [] a = "STRETCH" -> "neutral"
          [] a = "BACK_AWAY_SCARED" -> "scared"
          [] OTHER -> "NONE" ]

C20_MoodOnlyByFeedback ==
    /\ call.op \in {"tick", "register_interaction", "update_face_target", "get_state"}
        => state.mood = call.pre.state.mood
    /\ (call.op = "decide" /\ call.overridden)
        => state.mood = call.pre.state.mood
    /\ C17_Applies
        => state.mood = IF C20_Table[call.action] = "NONE"
                        THEN call.pre.state.mood
                        ELSE C20_Table[call.action]

\* C20 witness: update_after_action(BACK_AWAY_SCARED) has changed the mood to
\* scared.
C20_Witness ==
    /\ call.op = "update_after_action"
    /\ call.action = "BACK_AWAY_SCARED"
    /\ call.pre.state.mood # "scared"
    /\ state.mood = "scared"

\* C21: get_state changes nothing: every drive, the mood, recognized_person,
\* last_action, the idle timer, the tick timestamp and recent_actions are the
\* same after the call as before it, and a second call at the same clock
\* reading returns a snapshot equal to the first.
C21_SnapshotPure ==
    call.op = "get_state"
        => /\ state = call.pre.state
           /\ last_interaction_ts = call.pre.last_interaction_ts
           /\ last_tick_ts = call.pre.last_tick_ts
           /\ recent_actions = call.pre.recent_actions
           /\ get_state(Self, now) = call.current_state

\* C21 witness: a snapshot taken after time has passed since the last tick, of
\* a manager that has acted, has left the manager as it was.
C21_Witness ==
    /\ call.op = "get_state"
    /\ now > last_tick_ts
    /\ now > last_interaction_ts
    /\ recent_actions # <<>>
    /\ state.energy < One
    /\ Self = call.pre

\* C22: a snapshot taken as the first call after construction reports energy
\* 0.85, curiosity 0.65, confidence 0.55, attention_hunger 0.35, excitement
\* 0.45, caution 0.3 and mood curious, no last action and an empty history.
C22_FreshSnapshot ==
    [][ (steps = 0 /\ call'.op = "get_state")
            => LET snapshot == call'.current_state
               IN  /\ snapshot.energy = 85000
                   /\ snapshot.curiosity = 65000
                   /\ snapshot.confidence = 55000
                   /\ snapshot.attention_hunger = 35000
                   /\ snapshot.excitement = 45000
                   /\ snapshot.caution = 30000
                   /\ snapshot.mood = "curious"
                   /\ snapshot.last_action = "NONE"
                   /\ snapshot.recent_actions = <<>> ]_vars

\* C22 witness: a snapshot has been taken at the clock reading of the
\* construction, of a manager on which no hook or feedback has run.
C22_Witness ==
    /\ call.op = "get_state"
    /\ now = 0
    /\ recent_actions = <<>>
    /\ state.last_action = "NONE"
    /\ state.recognized_person = "NONE"
    /\ call.current_state.confidence = 55000
    /\ call.current_state.energy = 85000

\* C23: after any sequence of update_after_action calls recent_actions holds at
\* most max_recent_actions (8) entries, they are the most recent actions
\* applied, in the order applied, and appending to a full history evicts
\* exactly the oldest entry.
C23_Kept == Min(8, Len(call.applied))

C23_RecentHistory ==
    /\ Len(recent_actions) <= 8
    /\ Len(recent_actions) = C23_Kept
    /\ \A i \in 1..C23_Kept :
          recent_actions[i] = call.applied[Len(call.applied) - C23_Kept + i]
    /\ (call.op = "update_after_action" /\ Len(call.pre.recent_actions) = 8)
          => recent_actions = Append(Tail(call.pre.recent_actions), call.action)

\* C23 witness: ten actions have been applied, the history holds the last
\* eight of them and the first action applied, a different one, is gone.
C23_Witness ==
    /\ Len(call.applied) = 10
    /\ Len(recent_actions) = 8
    /\ call.applied[1] = "STRETCH"
    /\ call.applied[2] = "STRETCH"
    /\ \A i \in 1..8 : recent_actions[i] = "GO_TO_SLEEP"

\* C25: attach_handler for an identifier that is not registered leaves the
\* registry (its identifiers, every descriptor and every bound handler)
\* unchanged; for a registered identifier it replaces that descriptor's
\* handler only, leaving its metadata and all other descriptors unchanged.
C25_AttachHandler ==
    call.op = "attach_handler"
        => IF call.name \notin DOMAIN call.pre
           THEN registry = call.pre
           ELSE /\ DOMAIN registry = DOMAIN call.pre
                /\ registry[call.name].handler = call.handler
                /\ registry[call.name].name = call.pre[call.name].name
                /\ registry[call.name].priority = call.pre[call.name].priority
                /\ registry[call.name].energy_cost = call.pre[call.name].energy_cost
                /\ \A n \in DOMAIN registry \ {call.name} : registry[n] = call.pre[n]

\* C25 witness: a handler has been attached to an identifier that is not
\* registered, in a registry that holds another descriptor with a handler,
\* and the registry is as it was.
C25_Witness ==
    /\ call.op = "attach_handler"
    /\ call.name = "STRETCH"
    /\ DOMAIN call.pre = {"IGNORE", "LOOK_AROUND"}
    /\ call.pre["IGNORE"].handler = "stub"
    /\ call.pre["LOOK_AROUND"].handler = "NONE"
    /\ registry = call.pre

\* C24 (as claimed): ActionDescriptor.dispatch never raises to its caller: with
\* no handler bound it invokes nothing, and an error of the bound handler is
\* caught inside dispatch, so that the cycle loop is never left because of a
\* handler.
C24_DispatchNeverRaises ==
    /\ call.op = "dispatch"
          => /\ ~call.raised
             /\ call.handler = "NONE" => call.invoked = 0
    /\ loop.exit # "handler_error"

\* C26 (as claimed): decide_action_from_text returns an action identifier for
\* every utterance and every reply of the delegate and never raises; when the
\* delegate's call raises, its reply is not JSON or names no known action, the
\* action returned is TILT_HEAD_CURIOUSLY.
C26_Failed(reply) == reply.raises \/ ~reply.json \/ reply.action = <<"FLY">>

C26_DelegateAlwaysAnswers ==
    call.op = "decide_action_from_text"
        => /\ ~call.raised
           /\ call.action \in ActionName
           /\ C26_Failed(call.reply) => call.action = "TILT_HEAD_CURIOUSLY"

\* C27, the order alone: the steps a cycle has taken are in the order listen,
\* capture, transcribe, delegate, dispatch, pause, decide, each at most once;
\* so decide comes after every step of the voice sub-sequence that was taken.
C27_Order ==
    <<"listen", "capture", "transcribe", "delegate", "dispatch", "pause", "decide">>

C27_Pos(step) == CHOOSE i \in 1..Len(C27_Order) : C27_Order[i] = step

C27_OrderKept ==
    \A i \in 1..Len(loop.log) : \A j \in 1..Len(loop.log) :
        i < j => C27_Pos(loop.log[i]) < C27_Pos(loop.log[j])

\* C27 (as claimed): in a cycle in which a hotword event is drained and an
\* utterance is heard, LISTEN_TO_USER is dispatched, then audio is captured,
\* then transcribed, then the delegate is called, then the delegate's action is
\* dispatched, then comes the pause, and decide runs only after all of that.
C27_VoiceSubsequence ==
    (loop.pc = "act" /\ \E i \in 1..Len(loop.log) : loop.log[i] = "delegate")
        => loop.log = C27_Order

\* C28 (as claimed): the cycle loop is never left because of a perception or
\* delegate fault: a failed camera read or an exception in face or gesture
\* processing, audio capture, transcription or the delegate makes the signal
\* absent for the cycle, and the loop goes on.
C28_LoopSurvivesFaults == loop.exit \notin {"camera_lost", "perception_error"}

\* C29 (as claimed): StateManager.tick is called exactly once in every cycle
\* of the loop, also in a cycle in which the voice sub-sequence runs.
C29_OneTickPerCycle == (loop.pc = "read" /\ loop.cycle > 0) => loop.ticks = 1

\* C30, the non-blocking half: the worker's put never finds the queue full.
C30_PutNeverBlocks == ~full(event_queue)

\* C30 (as claimed): the hotword queue is bounded: however long the cycle loop
\* goes without draining it, its length stays within a fixed capacity (here:
\* below the number of events the worker is let to publish, whatever that is).
C30_QueueBounded == Len(event_queue) < MaxPending

\* C34, for ticks of at most ten seconds: excitement ends between its value
\* before the tick and the resting target 0.2.
C34_Between(x, a, b) == (a <= x /\ x <= b) \/ (b <= x /\ x <= a)

C34_ShortTickTowardTarget ==
    (call.op = "tick" /\ call.delta >= 0 /\ call.delta <= 100)
        => C34_Between(state.excitement, call.pre.state.excitement, 20000)

\* C34 (as claimed): after a tick with any non-negative elapsed time,
\* excitement lies between its value before the tick and the resting target
\* 0.2 (inclusive): it moves toward the target and never crosses it.
C34_ExcitementTowardTarget ==
    (call.op = "tick" /\ call.delta >= 0)
        => C34_Between(state.excitement, call.pre.state.excitement, 20000)

\* C38, for a handler whose body does not raise TypeError: one dispatch runs
\* the handler's body at most once.
C38_OnceWithoutTypeError ==
    (call.op = "dispatch" /\ call.first # "TypeError") => call.ran <= 1

\* C38 (as claimed): one call to ActionDescriptor.dispatch invokes the bound
\* handler at most once, whatever the handler does, a handler that accepts
\* the context arguments and raises TypeError inside its body included.
C38_HandlerAtMostOnce ==
    call.op = "dispatch" => call.ran <= 1

\* C39: in every state reached from construction by tick,
\* register_interaction, update_face_target and update_after_action calls,
\* curiosity is at least 0.2; so what tick computes before clamping is above
\* its lower bound 0.1, and register_interaction, whose lower bound 0.2 does
\* bind, never returns with more curiosity than it was called with.
C39_CuriosityFloor ==
    /\ state.curiosity >= 20000
    /\ call.op = "tick"
          => call.pre.state.curiosity
               + curiosity_delta(tick_delta(call.pre, now),
                                 time_since_last_interaction(call.pre, now)) > 10000
    /\ call.op = "register_interaction"
          => state.curiosity <= call.pre.state.curiosity

\* a fifth interaction in a row: 0.25 - 0.1 falls below the bound, which holds
\* curiosity at 0.2
C39_Witness ==
    /\ call.op = "register_interaction"
    /\ call.pre.state.curiosity = 25000
    /\ state.curiosity = 20000

\* a tick and a social action on a manager whose curiosity is at the bound
C39_WitnessAtFloor ==
    /\ call.op \in {"tick", "update_after_action"}
    /\ call.pre.state.curiosity = 20000

\* C32, what the low-battery override does: a decide that returns GO_TO_SLEEP
\* from the override tier leaves the manager as the tick left it, energy not
\* above what it was before the call.
C32_OverrideLeavesEnergy ==
    (call.op = "decide" /\ call.overridden /\ call.action = "GO_TO_SLEEP")
        => state.energy <= call.pre.state.energy

\* C32 (as claimed): from any state in which energy has fallen below 0.15,
\* repeated decide cycles eventually bring energy back to at least 0.15.
C32_EnergyRecovers ==
    (state.energy < 15000) ~> (state.energy >= 15000)

\* C33 (as claimed): from the boot state, in decide cycles with no face, no
\* gesture and both flags false, attention_hunger eventually exceeds 0.7 at
\* scoring time and SEARCH_FOR_HUMAN is eventually selected.
C33_SearchEventually ==
    /\ <>(call.op = "decide" /\ ~call.overridden
            /\ call.current_state.attention_hunger > 70000)
    /\ <>(call.op = "decide" /\ call.action = "SEARCH_FOR_HUMAN")

\* C33, what the cycles do instead: whenever decide scores the pool the
\* winner is DO_A_HAPPY_DANCE or LOOK_AROUND, update_after_action registers
\* an interaction for it, and attention_hunger at scoring time never passes
\* its boot value 0.35.
C33_AttentionStarved ==
    (call.op = "decide" /\ ~call.overridden)
        => /\ call.action \in {"DO_A_HAPPY_DANCE", "LOOK_AROUND"}
           /\ call.current_state.attention_hunger <= 35000
           /\ state.attention_hunger <= call.ticked.state.attention_hunger

\* C35: SpeechRecorder.capture terminates.  While it is in its loop less than
\* max_duration has elapsed at the last frame, and a silence being timed
\* began at or after min_duration and has lasted less than silence_timeout;
\* when it returns, it returns every frame read, the recorder released; and
\* with every read returning or raising, it does leave.
C35_CaptureTerminates ==
    /\ [](capture.pc = "reading"
            => /\ capture.clock - capture.start_time < max_duration
               /\ capture.silence_start # -1
                    => /\ capture.silence_start - capture.start_time >= min_duration
                       /\ capture.clock - capture.silence_start < silence_timeout)
    /\ [](capture.pc = "returned"
            => /\ capture.result = capture.reads
               /\ capture.recorder = "deleted"
               /\ capture.exit \in {"max_duration", "silence", "error"})
    /\ <>(capture.pc \in {"returned", "raised"})

\* a capture ended by silence before max_duration, frames in hand
C35_Witness ==
    /\ capture.pc = "returned"
    /\ capture.exit = "silence"
    /\ capture.clock - capture.start_time < max_duration
    /\ capture.result > 1

\* a capture ended by the frame read exactly max_duration after the start
C35_WitnessMaxDuration ==
    /\ capture.pc = "returned"
    /\ capture.exit = "max_duration"
    /\ capture.clock - capture.start_time = max_duration

\* a capture ended by a read that raised, the frames read before it returned
C35_WitnessReadFails ==
    /\ capture.pc = "returned"
    /\ capture.exit = "error"
    /\ capture.result > 0

\* C31: once close has cleared the flag the worker completes at most one more
\* recorder read; with every read returning or raising the worker then leaves
\* its loop and ends, and close, whose join returns after a second at the
\* latest, runs to its end.
C31_CloseStopsWorker ==
    /\ [](hotword.late_reads <= 1)
    /\ (hotword.closing ~> hotword.worker \in {"idle", "done"})
    /\ (hotword.closing ~> hotword.main = "closed")

\* close has returned and the worker has ended, after the one read it had
\* begun before the flag was cleared
C31_Witness ==
    /\ hotword.main = "closed"
    /\ hotword.worker = "done"
    /\ hotword.late_reads = 1

\* close has returned after a join that timed out
C31_WitnessTimedOut ==
    /\ hotword.main = "closed"
    /\ hotword.timed_out

C36_Serials(q) == [i \in 1..Len(q) |-> q[i].serial]

\* C36: at every moment the events returned by the drains so far, the events
\* the running drain has taken and the events still queued are, in this
\* order, the events the worker has enqueued, each once; and while the
\* detector is not being closed every enqueued event is returned by a drain.
C36_EveryEventDrainedOnce ==
    /\ [](C36_Serials(hotword.returned \o hotword.events \o event_queue)
            = [i \in 1..hotword.put |-> i])
    /\ \A n \in 1..MaxEvents :
          (hotword.put >= n)
             ~> (hotword.closing
                 \/ \E i \in 1..Len(hotword.returned) : hotword.returned[i].serial = n)

\* a drain during which the worker enqueued has returned, and a later drain
\* has returned the rest: all events returned, in order
C36_Witness ==
    /\ hotword.put = MaxEvents
    /\ Len(hotword.returned) = MaxEvents
    /\ hotword.main = "ready"
    /\ ~hotword.closing

\* the worker enqueues while a drain is between its emptiness test and its get
C36_WitnessInterleaved ==
    /\ hotword.main = "drain_get"
    /\ Len(event_queue) >= 2
    /\ Len(hotword.events) >= 1

\* C37, when the join does not time out: the worker neither reads from the
\* recorder nor processes a frame after close has released them.
C37_SafeWhenJoined ==
    ~hotword.timed_out => hotword.misuse = "none"

\* C37 (as claimed): in no interleaving, one where the join times out
\* included, does the worker read from the recorder or process a frame after
\* close has stopped or deleted the recorder or deleted the engine.
C37_ReleaseAfterWorker ==
    hotword.misuse = "none"

====
